---- MODULE Spec2Model ----
(***************************************************************************)
(* A model of crc-fast: the Digest / checksum / combine contracts, the     *)
(* dispatch singleton (feature detection, tier selection), the folding-key *)
(* cache behind its read-write lock, and the three computation paths       *)
(* (table-driven software fallback, folding engine, native fusion).        *)
(*                                                                         *)
(* Machine words (u32, u64, polynomials over GF(2)) are represented as the *)
(* set of their set bit positions: bit i of the word is set iff i is in    *)
(* the set.  XOR is symmetric difference, shifts move positions, `as u32`  *)
(* keeps the positions below 32.  Bytes are integers 0..255.               *)
(***************************************************************************)
EXTENDS Integers, Sequences, FiniteSets, TLC

VARIABLES
    target_arch,        \* cfg(target_arch) of the build
    rust_1_89,          \* rustversion::since(1.89) holds for the build
    cpu,                \* features is_*_feature_detected! reports at run time
    static_features,    \* cfg(target_feature = ...) enabled at compile time
    overflow_checks,    \* the build profile's overflow-checks (on in debug builds)
    ARCH_OPS_INSTANCE,  \* the dispatch OnceLock: NONE until set, then the instance
    detections,         \* how many times create_arch_ops has run
    CACHE,              \* the key cache: a function from cache keys to key arrays
    lock,               \* the cache's RwLock: [readers, writer, poisoned]
    pc,                 \* per thread: position inside the running call
    call,               \* per thread: arguments and locals of the running call
    ret,                \* per thread: what the last call returned
    calls,              \* per thread: number of calls started
    variant,            \* the CrcAlgorithm the single-threaded calls are made for
    digest,             \* the Digest objects: [state, amount, params, calculator]
    absorbed,           \* per digest: the bytes absorbed so far (history)
    combined,           \* per digest: whether it has absorbed another digest (history)
    out                 \* what the last single-threaded API call returned

vars == <<target_arch, rust_1_89, cpu, static_features, overflow_checks, ARCH_OPS_INSTANCE,
          detections, CACHE, lock, pc, call, ret, calls, variant, digest, absorbed,
          combined, out>>

envVars == <<target_arch, rust_1_89, cpu, static_features, overflow_checks>>
dispatchVars == <<ARCH_OPS_INSTANCE, detections>>
cacheVars == <<CACHE, lock>>
threadVars == <<pc, call, ret, calls>>
digestVars == <<variant, digest, absorbed, combined>>

----------------------------------------------------------------------------
(* Words as sets of bit positions *)

Pow2 == <<1, 2, 4, 8, 16, 32, 64, 128, 256, 512, 1024, 2048, 4096, 8192, 16384, 32768>>

\* the 16-bit literal n as a word
Limb(n) == {i \in 0..15 : (n \div Pow2[i + 1]) % 2 = 1}

Shl(a, k) == {i + k : i \in a}
Shr(a, k) == {i - k : i \in {j \in a : j >= k}}
Xor(a, b) == (a \ b) \cup (b \ a)
\* the low w bits (`as u32` for w = 32, the register width of a w-bit CRC)
Low(a, w) == {i \in a : i < w}
\* u32::reverse_bits / u64::reverse_bits on a w-bit word
reverse_bits(a, w) == {w - 1 - i : i \in Low(a, w)}

u32(hi, lo) == Limb(lo) \cup Shl(Limb(hi), 16)
u64(l3, l2, l1, l0) == Limb(l0) \cup Shl(Limb(l1), 16) \cup Shl(Limb(l2), 32) \cup Shl(Limb(l3), 48)

\* the byte b (0..255) as a word, and the low byte of a word as an integer
ByteWord(b) == {i \in 0..7 : (b \div Pow2[i + 1]) % 2 = 1}
LowByte(a) ==
    (IF 0 \in a THEN 1 ELSE 0) + (IF 1 \in a THEN 2 ELSE 0) + (IF 2 \in a THEN 4 ELSE 0)
    + (IF 3 \in a THEN 8 ELSE 0) + (IF 4 \in a THEN 16 ELSE 0) + (IF 5 \in a THEN 32 ELSE 0)
    + (IF 6 \in a THEN 64 ELSE 0) + (IF 7 \in a THEN 128 ELSE 0)

ZERO == {}

\* `n as u64` for a length n below 2^16
as_u64(n) == Limb(n)

\* the sum of two numbers in binary, carries rippling until none is left
RECURSIVE sum(_, _)
sum(a, b) == IF b = {} THEN a ELSE sum(Xor(a, b), Shl(a \cap b, 1))
ALL_ONES(w) == 0..(w - 1)

\* always TRUE: a loop compares its register first, so that the register of
\* one iteration is computed before the next iteration starts
Evaluated(a) == a = a

----------------------------------------------------------------------------
(* The Rocksoft parameter sets of the `crc` crate (crc::CRC_32_AIXM ...),    *)
(* which software.rs instantiates and the CrcParams constants copy, and the *)
(* CRC_64_NVME set this repository defines itself.                          *)

Algorithm(width, poly, init, refl, xorout, check) ==
    [width |-> width, poly |-> poly, init |-> init, refin |-> refl, refout |-> refl,
     xorout |-> xorout, check |-> check]

CRC_32_AIXM == Algorithm(32, u32(\h8141, \h41AB), ZERO, FALSE, ZERO, u32(\h3010, \hBF7F))
CRC_32_AUTOSAR == Algorithm(32, u32(\hF4AC, \hFB13), ALL_ONES(32), TRUE, ALL_ONES(32), u32(\h1697, \hD06A))
CRC_32_BASE91_D == Algorithm(32, u32(\hA833, \h982B), ALL_ONES(32), TRUE, ALL_ONES(32), u32(\h8731, \h5576))
CRC_32_BZIP2 == Algorithm(32, u32(\h04C1, \h1DB7), ALL_ONES(32), FALSE, ALL_ONES(32), u32(\hFC89, \h1918))
CRC_32_CD_ROM_EDC == Algorithm(32, u32(\h8001, \h801B), ZERO, TRUE, ZERO, u32(\h6EC2, \hEDC4))
CRC_32_CKSUM == Algorithm(32, u32(\h04C1, \h1DB7), ZERO, FALSE, ALL_ONES(32), u32(\h765E, \h7680))
CRC_32_ISCSI == Algorithm(32, u32(\h1EDC, \h6F41), ALL_ONES(32), TRUE, ALL_ONES(32), u32(\hE306, \h9283))
CRC_32_ISO_HDLC == Algorithm(32, u32(\h04C1, \h1DB7), ALL_ONES(32), TRUE, ALL_ONES(32), u32(\hCBF4, \h3926))
CRC_32_JAMCRC == Algorithm(32, u32(\h04C1, \h1DB7), ALL_ONES(32), TRUE, ZERO, u32(\h340B, \hC6D9))
CRC_32_MEF == Algorithm(32, u32(\h741B, \h8CD7), ALL_ONES(32), TRUE, ZERO, u32(\hD2C2, \h2F51))
CRC_32_MPEG_2 == Algorithm(32, u32(\h04C1, \h1DB7), ALL_ONES(32), FALSE, ZERO, u32(\h0376, \hE6E7))
CRC_32_XFER == Algorithm(32, u32(\h0000, \h00AF), ZERO, FALSE, ZERO, u32(\hBD0B, \hE338))
CRC_64_ECMA_182 == Algorithm(64, u64(\h42F0, \hE1EB, \hA9EA, \h3693), ZERO, FALSE, ZERO,
                             u64(\h6C40, \hDF5F, \h0B49, \h7347))
CRC_64_GO_ISO == Algorithm(64, u64(\h0000, \h0000, \h0000, \h001B), ALL_ONES(64), TRUE, ALL_ONES(64),
                           u64(\hB909, \h56C7, \h75A4, \h1001))
CRC_64_MS == Algorithm(64, u64(\h259C, \h84CB, \hA642, \h6349), ALL_ONES(64), TRUE, ZERO,
                       u64(\h75D4, \hB74F, \h024E, \hCEEA))
CRC_64_NVME == Algorithm(64, u64(\hAD93, \hD235, \h94C9, \h3659), ALL_ONES(64), TRUE, ALL_ONES(64),
                         u64(\hAE8B, \h1486, \h0A79, \h9888))
CRC_64_REDIS == Algorithm(64, u64(\hAD93, \hD235, \h94C9, \h35A9), ZERO, TRUE, ZERO,
                          u64(\hE9C6, \hD914, \hC4B8, \hD9CA))
CRC_64_WE == Algorithm(64, u64(\h42F0, \hE1EB, \hA9EA, \h3693), ALL_ONES(64), FALSE, ALL_ONES(64),
                       u64(\h62EC, \h59E3, \hF1A4, \hF00A))
CRC_64_XZ == Algorithm(64, u64(\h42F0, \hE1EB, \hA9EA, \h3693), ALL_ONES(64), TRUE, ALL_ONES(64),
                       u64(\h995D, \hC9BB, \hDF19, \h39FA))

Crc32Algorithms == {"Crc32Aixm", "Crc32Autosar", "Crc32Base91D", "Crc32Bzip2", "Crc32CdRomEdc",
                    "Crc32Cksum", "Crc32Iscsi", "Crc32IsoHdlc", "Crc32Jamcrc", "Crc32Mef",
                    "Crc32Mpeg2", "Crc32Xfer"}
Crc64Algorithms == {"Crc64Ecma182", "Crc64GoIso", "Crc64Ms", "Crc64Nvme", "Crc64Redis",
                    "Crc64We", "Crc64Xz"}
\* enum CrcAlgorithm: the catalogued tags and the two sentinel tags
Catalogued == Crc32Algorithms \cup Crc64Algorithms
CrcAlgorithm == Catalogued \cup {"Crc32Custom", "Crc64Custom"}

----------------------------------------------------------------------------
(* The `crc` crate as software.rs uses it: Crc::<uN, Table<16>>::new builds *)
(* the lookup table from the algorithm; digest_with_initial, update and     *)
(* finalize run the register.  The register is w bits wide (w = width).     *)

\* crc::util::crc32 / crc64: one table entry, eight shift steps
RECURSIVE crc_shift(_, _, _, _, _)
crc_shift(w, poly, reflect, value, i) ==
    IF i = 0 \/ value = ZERO THEN value
    ELSE crc_shift(w, poly, reflect,
                   IF reflect
                   THEN Xor(Shr(value, 1), IF 0 \in value THEN poly ELSE ZERO)
                   ELSE Xor(Low(Shl(value, 1), w), IF (w - 1) \in value THEN poly ELSE ZERO),
                   i - 1)

\* crc::table::crc32_table / crc64_table: entry i of table[0] of Table<16>,
\* the bytewise table
crc_table(algorithm, i) ==
    LET w == algorithm.width
        poly == IF algorithm.refin THEN reverse_bits(algorithm.poly, w) ELSE algorithm.poly
    IN crc_shift(w, poly, algorithm.refin,
                 IF algorithm.refin THEN ByteWord(i) ELSE Shl(ByteWord(i), w - 8), 8)

\* crc::Crc::new: the algorithm and the table built from it
Crc_new(algorithm) == [algorithm |-> algorithm]

\* crc init(): the initial register for a caller-supplied initial value
crc_init(algorithm, initial) ==
    IF algorithm.refin THEN reverse_bits(initial, algorithm.width) ELSE Low(initial, algorithm.width)

\* Crc::update: inputs shorter than 16 bytes take the bytewise loop over table[0]
RECURSIVE crc_update(_, _, _)
crc_update(crc, reg, bytes) ==
    IF bytes = <<>> \/ ~Evaluated(reg) THEN reg
    ELSE LET w == crc.algorithm.width
             next == IF crc.algorithm.refin
                     THEN Xor(crc_table(crc.algorithm, LowByte(Xor(reg, ByteWord(Head(bytes))))),
                              Shr(reg, 8))
                     ELSE Xor(crc_table(crc.algorithm,
                                        LowByte(Xor(Shr(reg, w - 8), ByteWord(Head(bytes))))),
                              Low(Shl(reg, 8), w))
         IN crc_update(crc, next, Tail(bytes))

\* crc finalize(): output reflection and xorout
crc_finalize(algorithm, reg) ==
    Xor(IF algorithm.refin # algorithm.refout THEN reverse_bits(reg, algorithm.width) ELSE reg,
        algorithm.xorout)

----------------------------------------------------------------------------
(* arch/software.rs: the table-driven software fallback *)

RUST_CRC32_AIXM == Crc_new(CRC_32_AIXM)
RUST_CRC32_AUTOSAR == Crc_new(CRC_32_AUTOSAR)
RUST_CRC32_BASE91_D == Crc_new(CRC_32_BASE91_D)
RUST_CRC32_BZIP2 == Crc_new(CRC_32_BZIP2)
RUST_CRC32_CD_ROM_EDC == Crc_new(CRC_32_CD_ROM_EDC)
RUST_CRC32_CKSUM == Crc_new(CRC_32_CKSUM)
RUST_CRC32_ISCSI == Crc_new(CRC_32_ISCSI)
RUST_CRC32_ISO_HDLC == Crc_new(CRC_32_ISO_HDLC)
RUST_CRC32_JAMCRC == Crc_new(CRC_32_JAMCRC)
RUST_CRC32_MEF == Crc_new(CRC_32_MEF)
RUST_CRC32_MPEG_2 == Crc_new(CRC_32_MPEG_2)
RUST_CRC32_XFER == Crc_new(CRC_32_XFER)
RUST_CRC64_ECMA_182 == Crc_new(CRC_64_ECMA_182)
RUST_CRC64_GO_ISO == Crc_new(CRC_64_GO_ISO)
RUST_CRC64_MS == Crc_new(CRC_64_MS)
RUST_CRC64_NVME == Crc_new(CRC_64_NVME)
RUST_CRC64_REDIS == Crc_new(CRC_64_REDIS)
RUST_CRC64_WE == Crc_new(CRC_64_WE)
RUST_CRC64_XZ == Crc_new(CRC_64_XZ)

\* the outcome of a call that panics: in place of a u64 (no word has bit -1),
\* and in place of a struct
PANIC == {-1}
PANICKED == [panic |-> TRUE]
panicked(r) == "panic" \in DOMAIN r

\* `a += b` on u64 counters: an overflow panics in a build with
\* overflow-checks and wraps in a build without
add_assign(a, b) ==
    LET total == sum(a, b)
    IN IF 64 \in total THEN (IF overflow_checks THEN PANIC ELSE Low(total, 64)) ELSE total

\* mutant: the crate's xorout stays on the returned state
update_u32_keeps_xorout(state, data, params) ==
    LET initial == IF params.algorithm.refin THEN reverse_bits(state, 32) ELSE state
        reg == crc_update(params, crc_init(params.algorithm, initial), data)
    IN crc_finalize(params.algorithm, reg)

\* update_u32: reverse the state if REFIN (digest_with_initial reverses it back),
\* run the digest, and take the crate's xorout off again
update_u32(state, data, params) ==
    LET initial == IF params.algorithm.refin THEN reverse_bits(state, 32) ELSE state
        reg == crc_update(params, crc_init(params.algorithm, initial), data)
        checksum == crc_finalize(params.algorithm, reg)
    IN Xor(checksum, params.algorithm.xorout)

\* mutant: the state of a reflected CRC reaches the crate unreversed
update_u64_unreversed(state, data, params) ==
    LET reg == crc_update(params, crc_init(params.algorithm, state), data)
    IN Xor(crc_finalize(params.algorithm, reg), params.algorithm.xorout)

update_u64(state, data, params) ==
    LET initial == IF params.algorithm.refin THEN reverse_bits(state, 64) ELSE state
        reg == crc_update(params, crc_init(params.algorithm, initial), data)
    IN Xor(crc_finalize(params.algorithm, reg), params.algorithm.xorout)

\* software::update: the crate instance is chosen by the algorithm tag; the
\* sentinel tags build one from the params' own fields
software_update(state, data, params) ==
    CASE params.width = 32 ->
           LET a == params.algorithm IN
           IF a \notin Crc32Algorithms \cup {"Crc32Custom"} THEN PANIC
           ELSE update_u32(Low(state, 32), data,
                  CASE a = "Crc32Aixm" -> RUST_CRC32_AIXM
                    [] a = "Crc32Autosar" -> RUST_CRC32_AUTOSAR
                    [] a = "Crc32Base91D" -> RUST_CRC32_BASE91_D
                    [] a = "Crc32Bzip2" -> RUST_CRC32_BZIP2
                    [] a = "Crc32CdRomEdc" -> RUST_CRC32_CD_ROM_EDC
                    [] a = "Crc32Cksum" -> RUST_CRC32_CKSUM
                    [] a = "Crc32Iscsi" -> RUST_CRC32_ISCSI
                    [] a = "Crc32IsoHdlc" -> RUST_CRC32_ISO_HDLC
                    [] a = "Crc32Jamcrc" -> RUST_CRC32_JAMCRC
                    [] a = "Crc32Mef" -> RUST_CRC32_MEF
                    [] a = "Crc32Mpeg2" -> RUST_CRC32_MPEG_2
                    [] a = "Crc32Xfer" -> RUST_CRC32_XFER
                    [] a = "Crc32Custom" ->
                         Crc_new([width |-> params.width, poly |-> Low(params.poly, 32),
                                  init |-> Low(params.init, 32), refin |-> params.refin,
                                  refout |-> params.refout, xorout |-> Low(params.xorout, 32),
                                  check |-> Low(params.check, 32)]))
      [] params.width = 64 ->
           LET a == params.algorithm IN
           IF a \notin Crc64Algorithms \cup {"Crc64Custom"} THEN PANIC
           ELSE update_u64(state, data,
                  CASE a = "Crc64Ecma182" -> RUST_CRC64_ECMA_182
                    [] a = "Crc64GoIso" -> RUST_CRC64_GO_ISO
                    [] a = "Crc64Ms" -> RUST_CRC64_MS
                    [] a = "Crc64Nvme" -> RUST_CRC64_NVME
                    [] a = "Crc64Redis" -> RUST_CRC64_REDIS
                    [] a = "Crc64We" -> RUST_CRC64_WE
                    [] a = "Crc64Xz" -> RUST_CRC64_XZ
                    [] a = "Crc64Custom" ->
                         Crc_new([width |-> params.width, poly |-> params.poly,
                                  init |-> params.init, refin |-> params.refin,
                                  refout |-> params.refout, xorout |-> params.xorout,
                                  check |-> params.check]))
      [] OTHER -> PANIC

----------------------------------------------------------------------------
(* Polynomials over GF(2): carry-less multiply and division *)

\* CLMUL: the product of two polynomials, no carries
clmul(a, b) ==
    IF a = {} \/ b = {} THEN {}
    ELSE LET top == (CHOOSE i \in a : \A j \in a : j <= i) + (CHOOSE i \in b : \A j \in b : j <= i)
         IN {k \in 0..top : Cardinality({i \in a : (k - i) \in b}) % 2 = 1}

\* r * x mod P, for r of degree < w and P = x^w + poly
mul_x_step(w, poly, r) ==
    IF (w - 1) \in r THEN Xor(Low(Shl(r, 1), w), poly) ELSE Shl(r, 1)

\* r * x^n mod P: n steps, taken as two halves (zero stays zero)
RECURSIVE mul_x(_, _, _, _)
mul_x(w, poly, r, n) ==
    IF r = {} \/ n = 0 THEN r
    ELSE IF n = 1 THEN mul_x_step(w, poly, r)
    ELSE mul_x(w, poly, mul_x(w, poly, r, n \div 2), n - (n \div 2))

\* x^e mod P
x_power(w, poly, e) == mul_x(w, poly, {0}, e)

\* one step of the long division by P = x^w + poly, at the term x^k
poly_div_step(w, poly, st, k) ==
    IF k \in st.rem
    THEN [rem |-> Xor(st.rem, Shl(poly \cup {w}, k - w)), q |-> st.q \cup {k - w}]
    ELSE st

\* the n steps at the terms x^k, x^(k-1), ..., taken as two halves (nothing
\* is left to divide once the remainder is zero)
RECURSIVE poly_div_steps(_, _, _, _, _)
poly_div_steps(w, poly, st, k, n) ==
    IF st.rem = {} \/ n = 0 THEN st
    ELSE IF n = 1 THEN poly_div_step(w, poly, st, k)
    ELSE poly_div_steps(w, poly, poly_div_steps(w, poly, st, k, n \div 2),
                        k - (n \div 2), n - (n \div 2))

\* the quotient of rem by P, for rem of degree <= k
poly_div(w, poly, rem, k) ==
    IF k < w THEN {}
    ELSE poly_div_steps(w, poly, [rem |-> rem, q |-> {}], k, k - w + 1).q

----------------------------------------------------------------------------
(* consts.rs: the exponents of the folding constants, indexed like the keys *)

CRC32_EXPONENTS ==
    [i \in 0..20 |->
        <<0, 32 * 3, 32 * 5, 32 * 31, 32 * 33, 32 * 3, 32 * 2, 0, 0,
          32 * 27, 32 * 29, 32 * 23, 32 * 25, 32 * 19, 32 * 21, 32 * 15, 32 * 17,
          32 * 11, 32 * 13, 32 * 7, 32 * 9>>[i + 1]]

\* mutant: the 64-bit table is the 32-bit one with 64 for 32
CRC64_EXPONENTS_as_listed ==
    [i \in 0..20 |->
        <<0, 64 * 3, 64 * 5, 64 * 31, 64 * 33, 64 * 3, 64 * 2, 0, 0,
          64 * 27, 64 * 29, 64 * 23, 64 * 25, 64 * 19, 64 * 21, 64 * 15, 64 * 17,
          64 * 11, 64 * 13, 64 * 7, 64 * 9>>[i + 1]]

CRC64_EXPONENTS ==
    [i \in 0..20 |->
        <<0, 64 * 2, 64 * 3, 64 * 16, 64 * 17, 64 * 2, 64, 0, 0,
          64 * 14, 64 * 15, 64 * 12, 64 * 13, 64 * 10, 64 * 11, 64 * 8, 64 * 9,
          64 * 6, 64 * 7, 64 * 4, 64 * 5>>[i + 1]]

----------------------------------------------------------------------------
(* generate::keys, the constant generator of section 4.3.  A residue is a   *)
(* w-bit word; mu and the polynomial image carry the x^w term and are       *)
(* stored in a u64 slot (the 65th bit of a 64-bit image does not fit).      *)

\* the stored form of a residue x^e mod P
store_residue(w, reflected, r) ==
    IF reflected THEN (IF w = 32 THEN Shl(reverse_bits(r, 32), 32) ELSE reverse_bits(r, 64))
    ELSE r

\* the stored form of a (w+1)-bit polynomial (mu, P): forward as it is,
\* reflected bit-reversed over w+1 bits, i.e. (reverse(low w bits) << 1) | 1
store_image(w, reflected, p) ==
    Low(IF reflected THEN {w - i : i \in p} ELSE p, 64)

generate_keys(width, poly, reflected) ==
    LET w == width
        P == Low(poly, w)
        exponents == IF w = 32 THEN CRC32_EXPONENTS ELSE CRC64_EXPONENTS
    IN [i \in 0..22 |->
           CASE i \in (1..6) \cup (9..20) ->
                  store_residue(w, reflected, x_power(w, P, exponents[i]))
             [] i = 7 -> store_image(w, reflected, poly_div(w, P, {2 * w}, 2 * w))
             [] i = 8 -> store_image(w, reflected, P \cup {w})
             [] OTHER -> ZERO]

----------------------------------------------------------------------------
(* CrcKeysStorage and CrcParams (lib.rs, structs.rs) *)

KEY_COUNT == 23

from_keys_fold_256(keys) == [tag |-> "KeysFold256", keys |-> keys]

from_keys_fold_future_test(keys) == [tag |-> "KeysFutureTest", keys |-> keys]

key_count(storage) == IF storage.tag = "KeysFold256" THEN KEY_COUNT ELSE KEY_COUNT + 2

\* keys[index] on a Rust array: an index outside the array panics
array_index(keys, index) == IF index \in DOMAIN keys THEN keys[index] ELSE PANIC

\* mutant: the comparison admits the index one past the end
get_key_off_by_one(storage, index) ==
    CASE storage.tag = "KeysFold256" ->
           IF index <= 23 THEN array_index(storage.keys, index) ELSE ZERO
      [] storage.tag = "KeysFutureTest" ->
           IF index <= 25 THEN array_index(storage.keys, index) ELSE ZERO

\* CrcKeysStorage::get_key: out-of-range indices return zero
get_key(storage, index) ==
    CASE storage.tag = "KeysFold256" ->
           IF index < 23 THEN array_index(storage.keys, index) ELSE ZERO
      [] storage.tag = "KeysFutureTest" ->
           IF index < 25 THEN array_index(storage.keys, index) ELSE ZERO

CrcParams(algorithm, width, poly, init, refin, refout, xorout, check, keys) ==
    [algorithm |-> algorithm, width |-> width, poly |-> poly, init |-> init,
     refin |-> refin, refout |-> refout, xorout |-> xorout, check |-> check, keys |-> keys]

----------------------------------------------------------------------------
(* algorithm::update, the folding engine of section 4.4 on one partial      *)
(* block: the inputs of this model are shorter than 16 bytes, so the engine *)
(* goes from A directly to E (fold with k5/k6, Barrett with k7/k8).         *)

\* a residue key back in polynomial orientation
load_residue(w, reflected, k) ==
    IF reflected THEN (IF w = 32 THEN reverse_bits(Shr(k, 32), 32) ELSE reverse_bits(k, 64))
    ELSE Low(k, w)

\* a (w+1)-bit image back in polynomial orientation; the bit a u64 slot
\* cannot hold is the x^w term (forward) or the x^0 term (reflected)
load_image(w, reflected, k) ==
    IF reflected THEN {w - i : i \in k} \cup (IF w = 64 THEN {0} ELSE {})
    ELSE k \cup {w}

\* the message as a polynomial, first byte in the highest terms
message_poly(bytes, reflected) ==
    UNION {Shl(IF reflected THEN reverse_bits(ByteWord(bytes[i]), 8) ELSE ByteWord(bytes[i]),
               8 * (Len(bytes) - i)) : i \in 1..Len(bytes)}

\* Barrett reduction of t (degree < 2w): q = (t_hi * mu) div x^w, r = low_w(t + q * P)
barrett(w, t, mu, P) ==
    LET q == Shr(clmul(Shr(t, w), mu), w)
    IN Low(Xor(t, clmul(q, P)), w)

algorithm_update(w, state, bytes, params) ==
    IF bytes = <<>> THEN state
    ELSE LET r == params.refin
             st == IF r THEN reverse_bits(state, w) ELSE Low(state, w)
             acc == Xor(Shl(st, 8 * Len(bytes)), Shl(message_poly(bytes, r), w))
             k5 == load_residue(w, r, get_key(params.keys, 5))
             k6 == load_residue(w, r, get_key(params.keys, 6))
             mu == load_image(w, r, get_key(params.keys, 7))
             P == load_image(w, r, get_key(params.keys, 8))
             \* fold the terms above the distance of k5 onto the rest
             d5 == IF w = 32 THEN 96 ELSE 128
             f5 == Xor(clmul(Shr(acc, d5), k5), Low(acc, d5))
             \* width 32: one more fold, from 96 to 64 bits, with k6
             f6 == IF w = 32 THEN Xor(clmul(Shr(f5, 64), k6), Low(f5, 64)) ELSE f5
             crc == barrett(w, f6, mu, P)
         IN IF r THEN reverse_bits(crc, w) ELSE crc

----------------------------------------------------------------------------
(* crc32/consts.rs, crc64/consts.rs: the catalogued CrcParams, with the     *)
(* Rocksoft parameters of the catalogue and the keys of their polynomial    *)

catalogued(tag, a) ==
    CrcParams(tag, a.width, a.poly, a.init, a.refin, a.refout, a.xorout, a.check,
              from_keys_fold_256(generate_keys(a.width, a.poly, a.refin)))

CRC32_AIXM == catalogued("Crc32Aixm", CRC_32_AIXM)
CRC32_AUTOSAR == catalogued("Crc32Autosar", CRC_32_AUTOSAR)
CRC32_BASE91_D == catalogued("Crc32Base91D", CRC_32_BASE91_D)
CRC32_BZIP2 == catalogued("Crc32Bzip2", CRC_32_BZIP2)
CRC32_CD_ROM_EDC == catalogued("Crc32CdRomEdc", CRC_32_CD_ROM_EDC)
CRC32_CKSUM == catalogued("Crc32Cksum", CRC_32_CKSUM)
CRC32_ISCSI == catalogued("Crc32Iscsi", CRC_32_ISCSI)
CRC32_ISO_HDLC == catalogued("Crc32IsoHdlc", CRC_32_ISO_HDLC)
CRC32_JAMCRC == catalogued("Crc32Jamcrc", CRC_32_JAMCRC)
CRC32_MEF == catalogued("Crc32Mef", CRC_32_MEF)
CRC32_MPEG_2 == catalogued("Crc32Mpeg2", CRC_32_MPEG_2)
CRC32_XFER == catalogued("Crc32Xfer", CRC_32_XFER)
CRC64_ECMA_182 == catalogued("Crc64Ecma182", CRC_64_ECMA_182)
CRC64_GO_ISO == catalogued("Crc64GoIso", CRC_64_GO_ISO)
CRC64_MS == catalogued("Crc64Ms", CRC_64_MS)
CRC64_NVME == catalogued("Crc64Nvme", CRC_64_NVME)
CRC64_REDIS == catalogued("Crc64Redis", CRC_64_REDIS)
CRC64_WE == catalogued("Crc64We", CRC_64_WE)
CRC64_XZ == catalogued("Crc64Xz", CRC_64_XZ)

----------------------------------------------------------------------------
(* crc32::fusion: the native CRC-32 instructions (crc32c on x86 and         *)
(* aarch64, crc32 on aarch64), one byte at a time; the polynomial is wired  *)
(* into the instruction and no CrcParams reaches it.                        *)

NATIVE_CRC32C_POLY == u32(\h82F6, \h3B78)
NATIVE_CRC32_POLY == u32(\hEDB8, \h8320)

RECURSIVE native_bits(_, _, _)
native_bits(poly, reg, n) ==
    IF n = 0 \/ reg = ZERO THEN reg
    ELSE native_bits(poly, IF 0 \in reg THEN Xor(Shr(reg, 1), poly) ELSE Shr(reg, 1), n - 1)

RECURSIVE native_crc(_, _, _)
native_crc(poly, reg, data) ==
    IF data = <<>> \/ ~Evaluated(reg) THEN reg
    ELSE native_crc(poly, native_bits(poly, Xor(reg, ByteWord(Head(data))), 8), Tail(data))

fusion_crc32_iscsi(state, data) == native_crc(NATIVE_CRC32C_POLY, state, data)
fusion_crc32_iso_hdlc(state, data) == native_crc(NATIVE_CRC32_POLY, state, data)

----------------------------------------------------------------------------
(* combine::checksums, section 4.6: the first checksum, with the image of   *)
(* the empty message taken out, is shifted by len2 message bytes            *)
(* (multiplied by x^(8*len2) mod P) and the second checksum is added.       *)

\* a * b mod P, for a and b of degree < w
mul_mod(w, poly, a, b) ==
    poly_div_steps(w, poly, [rem |-> clmul(a, b), q |-> {}], 2 * w - 2, w - 1).rem

\* x^(8 * 2^i) mod P, by squaring
RECURSIVE x_power_bytes(_, _, _)
x_power_bytes(w, poly, i) ==
    IF i = 0 THEN x_power(w, poly, 8)
    ELSE LET h == x_power_bytes(w, poly, i - 1)
         IN IF h = {} THEN {} ELSE mul_mod(w, poly, h, h)

\* r * x^(8n) mod P for a byte count n given as a u64: one factor
\* x^(8 * 2^i) for each bit i of n, from bit i on
RECURSIVE mul_x_bytes(_, _, _, _, _)
mul_x_bytes(w, poly, r, n, i) ==
    IF r = {} \/ {j \in n : j >= i} = {} THEN r
    ELSE mul_x_bytes(w, poly,
                     IF i \in n THEN mul_mod(w, poly, r, x_power_bytes(w, poly, i)) ELSE r,
                     n, i + 1)

\* multiply a raw register by x^(8n) mod P
shift_crc(crc, n, params) ==
    LET w == params.width
        a == IF params.refin THEN reverse_bits(crc, w) ELSE Low(crc, w)
        r == mul_x_bytes(w, Low(params.poly, w), a, n, 0)
    IN IF params.refin THEN reverse_bits(r, w) ELSE r

\* len2 is a u64
combine_checksums(crc1, crc2, len2, params) ==
    IF len2 = ZERO THEN crc1
    ELSE Xor(shift_crc(Xor(Xor(crc1, params.init), params.xorout), len2, params), crc2)

----------------------------------------------------------------------------
(* cache.rs: the key cache, a OnceLock<RwLock<HashMap<CrcParamsCacheKey,    *)
(* [u64; 23]>>>, and structs.rs: CrcParams::new                             *)

\* mutant: the cache key leaves out the reflection flag
CrcParamsCacheKey_new_without_reflected(width, poly, reflected) ==
    [width |-> width, poly |-> poly, reflected |-> FALSE]

CrcParamsCacheKey_new(width, poly, reflected) ==
    [width |-> width, poly |-> poly, reflected |-> reflected]

\* the OnceLock before its first use, and the map get_cache creates in it
NoCache == [created |-> FALSE, map |-> <<>>]
get_cache(cache) == [created |-> TRUE, map |-> cache.map]

\* the RwLock: the threads holding a read guard, the thread holding the
\* write guard, and the poison flag
FreeLock == [readers |-> {}, writers |-> {}, poisoned |-> FALSE]

\* RwLock::read / RwLock::write: what the call returns once the lock is taken
rwlock_result(l) == IF l.poisoned THEN "Err" ELSE "Ok"

\* mutant: a map that compares keys by width and polynomial only
HashMap_get_by_poly(map, key) ==
    LET same == {k \in DOMAIN map : k.width = key.width /\ k.poly = key.poly}
    IN IF same = {} THEN [found |-> FALSE] ELSE [found |-> TRUE, keys |-> map[CHOOSE k \in same : TRUE]]

\* HashMap::get: Some(keys) or None
HashMap_get(map, key) ==
    IF key \in DOMAIN map THEN [found |-> TRUE, keys |-> map[key]] ELSE [found |-> FALSE]

\* HashMap::insert, HashMap::clear
HashMap_insert(map, key, keys) == [k \in DOMAIN map \cup {key} |-> IF k = key THEN keys ELSE map[k]]
HashMap_clear(map) == <<>>

\* get_or_generate_keys, read phase: `if let Ok(cache) = get_cache().read()`
\* goes on to the lookup, anything else to the generation
read_phase(result) == IF result = "Ok" THEN "lookup" ELSE "generate"

\* mutant: the write result is unwrapped
write_phase_unwrap(result) == IF result = "Ok" THEN "insert" ELSE "panic"

\* get_or_generate_keys, write phase: `let _ = get_cache().write().map(..)`
\* inserts under the guard, and drops an Err
write_phase(result) == IF result = "Ok" THEN "insert" ELSE "return"

\* mutant: the xorout is stored in the first key
CrcParams_new_keyed_by_xorout(width, poly, init, reflected, xorout, check, keys_array) ==
    CASE width = 32 ->
           CrcParams("Crc32Custom", width, poly, init, reflected, reflected, xorout, check,
                     from_keys_fold_256([keys_array EXCEPT ![0] = xorout]))
      [] width = 64 ->
           CrcParams("Crc64Custom", width, poly, init, reflected, reflected, xorout, check,
                     from_keys_fold_256([keys_array EXCEPT ![0] = xorout]))
      [] OTHER -> PANICKED

\* CrcParams::new after the call of get_or_generate_keys
CrcParams_new(width, poly, init, reflected, xorout, check, keys_array) ==
    CASE width = 32 ->
           CrcParams("Crc32Custom", width, poly, init, reflected, reflected, xorout, check,
                     from_keys_fold_256(keys_array))
      [] width = 64 ->
           CrcParams("Crc64Custom", width, poly, init, reflected, reflected, xorout, check,
                     from_keys_fold_256(keys_array))
      [] OTHER -> PANICKED

----------------------------------------------------------------------------
(* feature_detection.rs *)

NONE == "none"

PerformanceTier ==
    {"AArch64AesSha3", "AArch64Aes", "X86_64Avx512Vpclmulqdq", "X86_64Avx512Pclmulqdq",
     "X86_64SsePclmulqdq", "X86SsePclmulqdq", "SoftwareTable"}

ArchCapabilities ==
    [has_aes : BOOLEAN, has_sha3 : BOOLEAN, has_sse41 : BOOLEAN, has_pclmulqdq : BOOLEAN,
     has_avx512vl : BOOLEAN, has_vpclmulqdq : BOOLEAN, rust_version_supports_avx512 : BOOLEAN]

tier_to_target_string(tier) ==
    CASE tier = "AArch64AesSha3" -> "aarch64-neon-pmull-sha3"
      [] tier = "AArch64Aes" -> "aarch64-neon-pmull"
      [] tier = "X86_64Avx512Vpclmulqdq" -> "x86_64-avx512-vpclmulqdq"
      [] tier = "X86_64Avx512Pclmulqdq" -> "x86_64-avx512-pclmulqdq"
      [] tier = "X86_64SsePclmulqdq" -> "x86_64-sse-pclmulqdq"
      [] tier = "X86SsePclmulqdq" -> "x86-sse-pclmulqdq"
      [] tier = "SoftwareTable" -> "software-fallback-tables"

\* is_x86_feature_detected! / is_aarch64_feature_detected!: true at compile
\* time for a feature the build enables, else what the CPU reports
is_feature_detected(feature) == feature \in static_features \/ feature \in cpu

check_rust_version_supports_avx512 == rust_1_89

detect_aarch64_features ==
    [has_aes |-> is_feature_detected("aes"), has_sha3 |-> is_feature_detected("sha3"),
     has_sse41 |-> FALSE, has_pclmulqdq |-> FALSE, has_avx512vl |-> FALSE,
     has_vpclmulqdq |-> FALSE, rust_version_supports_avx512 |-> FALSE]

\* mutant: the two wide features are detected without the toolchain predicate
detect_x86_features_ungated ==
    LET rust_version_supports_avx512 == check_rust_version_supports_avx512
        has_sse41 == is_feature_detected("sse4.1")
        has_pclmulqdq == has_sse41 /\ is_feature_detected("pclmulqdq")
        has_avx512vl == has_pclmulqdq /\ is_feature_detected("avx512vl")
        has_vpclmulqdq == has_avx512vl /\ is_feature_detected("vpclmulqdq")
    IN [has_aes |-> FALSE, has_sha3 |-> FALSE, has_sse41 |-> has_sse41,
        has_pclmulqdq |-> has_pclmulqdq, has_avx512vl |-> has_avx512vl,
        has_vpclmulqdq |-> has_vpclmulqdq,
        rust_version_supports_avx512 |-> rust_version_supports_avx512]

detect_x86_features ==
    LET rust_version_supports_avx512 == check_rust_version_supports_avx512
        has_sse41 == is_feature_detected("sse4.1")
        has_pclmulqdq == has_sse41 /\ is_feature_detected("pclmulqdq")
        has_avx512vl ==
            has_pclmulqdq /\ rust_version_supports_avx512 /\ is_feature_detected("avx512vl")
        has_vpclmulqdq ==
            has_avx512vl /\ rust_version_supports_avx512 /\ is_feature_detected("vpclmulqdq")
    IN [has_aes |-> FALSE, has_sha3 |-> FALSE, has_sse41 |-> has_sse41,
        has_pclmulqdq |-> has_pclmulqdq, has_avx512vl |-> has_avx512vl,
        has_vpclmulqdq |-> has_vpclmulqdq,
        rust_version_supports_avx512 |-> rust_version_supports_avx512]

detect_arch_capabilities ==
    CASE target_arch = "aarch64" -> detect_aarch64_features
      [] target_arch \in {"x86", "x86_64"} -> detect_x86_features
      [] OTHER -> [has_aes |-> FALSE, has_sha3 |-> FALSE, has_sse41 |-> FALSE,
                   has_pclmulqdq |-> FALSE, has_avx512vl |-> FALSE, has_vpclmulqdq |-> FALSE,
                   rust_version_supports_avx512 |-> FALSE]

select_performance_tier(capabilities) ==
    CASE target_arch = "aarch64" /\ capabilities.has_sha3 /\ capabilities.has_aes -> "AArch64AesSha3"
      [] target_arch = "aarch64" /\ capabilities.has_aes -> "AArch64Aes"
      [] target_arch = "x86_64" /\ capabilities.has_vpclmulqdq -> "X86_64Avx512Vpclmulqdq"
      [] target_arch = "x86_64" /\ ~capabilities.has_vpclmulqdq /\ capabilities.has_avx512vl ->
             "X86_64Avx512Pclmulqdq"
      [] target_arch = "x86_64" /\ ~capabilities.has_vpclmulqdq /\ ~capabilities.has_avx512vl
            /\ capabilities.has_pclmulqdq -> "X86_64SsePclmulqdq"
      [] target_arch = "x86" /\ capabilities.has_pclmulqdq -> "X86SsePclmulqdq"
      [] OTHER -> "SoftwareTable"

select_performance_tier_for_test(capabilities) ==
    IF capabilities.has_sha3 /\ capabilities.has_aes THEN "AArch64AesSha3"
    ELSE IF capabilities.has_aes THEN "AArch64Aes"
    ELSE IF capabilities.has_vpclmulqdq /\ capabilities.has_avx512vl
            /\ capabilities.rust_version_supports_avx512 THEN "X86_64Avx512Vpclmulqdq"
    ELSE IF capabilities.has_avx512vl /\ capabilities.has_pclmulqdq
            /\ capabilities.rust_version_supports_avx512 THEN "X86_64Avx512Pclmulqdq"
    ELSE IF capabilities.has_pclmulqdq /\ capabilities.has_sse41 THEN "X86_64SsePclmulqdq"
    ELSE "SoftwareTable"

create_x86_sse_pclmulqdq_ops == "X86SsePclmulqdq"

\* both builds (since 1.89, before 1.89); a tier of another architecture
\* falls to the catch-all arm
create_arch_ops_from_tier(tier) ==
    CASE tier = "AArch64AesSha3" /\ target_arch = "aarch64" -> "Aarch64AesSha3"
      [] tier = "AArch64Aes" /\ target_arch = "aarch64" -> "Aarch64Aes"
      [] tier = "X86_64Avx512Vpclmulqdq" /\ target_arch = "x86_64" ->
             IF rust_1_89 THEN "X86_64Avx512Vpclmulqdq" ELSE create_x86_sse_pclmulqdq_ops
      [] tier = "X86_64Avx512Pclmulqdq" /\ target_arch = "x86_64" ->
             IF rust_1_89 THEN "X86_64Avx512Pclmulqdq" ELSE create_x86_sse_pclmulqdq_ops
      [] tier \in {"X86_64SsePclmulqdq", "X86SsePclmulqdq"} /\ target_arch \in {"x86", "x86_64"} ->
             create_x86_sse_pclmulqdq_ops
      [] OTHER -> "SoftwareFallback"

create_arch_ops == create_arch_ops_from_tier(select_performance_tier(detect_arch_capabilities))

\* ArchOpsInstance::get_tier
get_tier(instance) ==
    CASE instance = "Aarch64Aes" -> "AArch64Aes"
      [] instance = "Aarch64AesSha3" -> "AArch64AesSha3"
      [] instance = "X86SsePclmulqdq" -> "X86SsePclmulqdq"
      [] instance = "X86_64Avx512Pclmulqdq" -> "X86_64Avx512Pclmulqdq"
      [] instance = "X86_64Avx512Vpclmulqdq" -> "X86_64Avx512Vpclmulqdq"
      [] instance = "SoftwareFallback" -> "SoftwareTable"

get_target_string(instance) == tier_to_target_string(get_tier(instance))

\* mutant: the closure runs on every call
once_runs_always(cell) == TRUE

\* OnceLock::get_or_init: the closure runs if and only if the cell is empty
once_runs(cell) == cell = NONE

\* OnceLock::get_or_init: the value of the cell once the call returns
get_or_init(cell, f) == IF once_runs(cell) THEN f ELSE cell

get_arch_ops == get_or_init(ARCH_OPS_INSTANCE, create_arch_ops)

----------------------------------------------------------------------------
(* arch/mod.rs: arch::update, the dispatch to a tier or to the fallback *)

\* the width match every hardware tier makes around algorithm::update
update_tier(state, bytes, params) ==
    CASE params.width = 64 -> algorithm_update(64, state, bytes, params)
      [] params.width = 32 -> algorithm_update(32, Low(state, 32), bytes, params)
      [] OTHER -> PANIC

\* the value of software::update is computed and dropped; every path ends
\* in the panic
x86_software_update(state, bytes, params) ==
    IF (~is_feature_detected("sse4.1") \/ ~is_feature_detected("pclmulqdq"))
       /\ target_arch = "x86"
       /\ ("sse4.1" \notin static_features \/ "pclmulqdq" \notin static_features)
    THEN LET dropped == software_update(state, bytes, params) IN PANIC
    ELSE PANIC

update_aarch64(state, bytes, params) ==
    IF get_arch_ops \in {"Aarch64AesSha3", "Aarch64Aes"} THEN update_tier(state, bytes, params)
    ELSE IF (~is_feature_detected("aes") \/ ~is_feature_detected("neon"))
            /\ ("aes" \notin static_features \/ "neon" \notin static_features)
         THEN software_update(state, bytes, params)
         ELSE PANIC

update_x86(state, bytes, params) ==
    IF get_arch_ops \in {"X86_64Avx512Vpclmulqdq", "X86_64Avx512Pclmulqdq", "X86SsePclmulqdq"}
    THEN update_tier(state, bytes, params)
    ELSE IF rust_1_89
         THEN (IF target_arch = "x86" THEN x86_software_update(state, bytes, params) ELSE PANIC)
         ELSE x86_software_update(state, bytes, params)

arch_update(state, bytes, params) ==
    CASE target_arch = "aarch64" -> update_aarch64(state, bytes, params)
      [] target_arch \in {"x86", "x86_64"} -> update_x86(state, bytes, params)
      [] OTHER -> software_update(state, bytes, params)

\* whether a call of arch::update passes through get_arch_ops
update_uses_arch_ops == target_arch \in {"aarch64", "x86", "x86_64"}

----------------------------------------------------------------------------
(* lib.rs, structs.rs: calculators, checksum, checksum_combine, Digest *)

Calculator_calculate(state, data, params) == arch_update(state, data, params)

crc32_iscsi_calculator(state, data, params) ==
    IF target_arch \in {"aarch64", "x86_64", "x86"} THEN fusion_crc32_iscsi(Low(state, 32), data)
    ELSE Calculator_calculate(state, data, params)

crc32_iso_hdlc_calculator(state, data, params) ==
    IF target_arch = "aarch64" THEN fusion_crc32_iso_hdlc(Low(state, 32), data)
    ELSE Calculator_calculate(state, data, params)

\* a call through a CalculatorFn pointer
calculator_call(calculator, state, data, params) ==
    CASE calculator = "crc32_iscsi_calculator" -> crc32_iscsi_calculator(state, data, params)
      [] calculator = "crc32_iso_hdlc_calculator" -> crc32_iso_hdlc_calculator(state, data, params)
      [] OTHER -> Calculator_calculate(state, data, params)

\* whether that call passes through get_arch_ops
calculator_uses_arch_ops(calculator) ==
    CASE calculator = "crc32_iscsi_calculator" -> target_arch \notin {"aarch64", "x86_64", "x86"}
      [] calculator = "crc32_iso_hdlc_calculator" -> target_arch = "x86" \/ target_arch = "x86_64"
      [] OTHER -> update_uses_arch_ops

calculate(params) == [calculator |-> "Calculator::calculate", params |-> params]

get_calculator_params(algorithm) ==
    CASE algorithm = "Crc32Aixm" -> calculate(CRC32_AIXM)
      [] algorithm = "Crc32Autosar" -> calculate(CRC32_AUTOSAR)
      [] algorithm = "Crc32Base91D" -> calculate(CRC32_BASE91_D)
      [] algorithm = "Crc32Bzip2" -> calculate(CRC32_BZIP2)
      [] algorithm = "Crc32CdRomEdc" -> calculate(CRC32_CD_ROM_EDC)
      [] algorithm = "Crc32Cksum" -> calculate(CRC32_CKSUM)
      [] algorithm = "Crc32Custom" -> PANICKED
      [] algorithm = "Crc32Iscsi" -> [calculator |-> "crc32_iscsi_calculator", params |-> CRC32_ISCSI]
      [] algorithm = "Crc32IsoHdlc" ->
             [calculator |-> "crc32_iso_hdlc_calculator", params |-> CRC32_ISO_HDLC]
      [] algorithm = "Crc32Jamcrc" -> calculate(CRC32_JAMCRC)
      [] algorithm = "Crc32Mef" -> calculate(CRC32_MEF)
      [] algorithm = "Crc32Mpeg2" -> calculate(CRC32_MPEG_2)
      [] algorithm = "Crc32Xfer" -> calculate(CRC32_XFER)
      [] algorithm = "Crc64Custom" -> PANICKED
      [] algorithm = "Crc64Ecma182" -> calculate(CRC64_ECMA_182)
      [] algorithm = "Crc64GoIso" -> calculate(CRC64_GO_ISO)
      [] algorithm = "Crc64Ms" -> calculate(CRC64_MS)
      [] algorithm = "Crc64Nvme" -> calculate(CRC64_NVME)
      [] algorithm = "Crc64Redis" -> calculate(CRC64_REDIS)
      [] algorithm = "Crc64We" -> calculate(CRC64_WE)
      [] algorithm = "Crc64Xz" -> calculate(CRC64_XZ)

\* value ^ xorout, unless the callee panicked
xor_result(value, xorout) == IF value = PANIC THEN PANIC ELSE Xor(value, xorout)

\* mutant: the xorout is not applied
checksum_without_xorout(algorithm, buf) ==
    LET cp == get_calculator_params(algorithm)
    IN IF panicked(cp) THEN PANIC
       ELSE calculator_call(cp.calculator, cp.params.init, buf, cp.params)

checksum(algorithm, buf) ==
    LET cp == get_calculator_params(algorithm)
    IN IF panicked(cp) THEN PANIC
       ELSE xor_result(calculator_call(cp.calculator, cp.params.init, buf, cp.params),
                       cp.params.xorout)

checksum_with_params(params, buf) ==
    xor_result(Calculator_calculate(params.init, buf, params), params.xorout)

\* mutant: the two checksums are handed over in the wrong order
checksum_combine_swapped(algorithm, checksum1, checksum2, checksum2_len) ==
    LET cp == get_calculator_params(algorithm)
    IN IF panicked(cp) THEN PANIC
       ELSE combine_checksums(checksum2, checksum1, checksum2_len, cp.params)

checksum_combine(algorithm, checksum1, checksum2, checksum2_len) ==
    LET cp == get_calculator_params(algorithm)
    IN IF panicked(cp) THEN PANIC
       ELSE combine_checksums(checksum1, checksum2, checksum2_len, cp.params)

Digest_new(algorithm) ==
    LET cp == get_calculator_params(algorithm)
    IN IF panicked(cp) THEN PANICKED
       ELSE [state |-> cp.params.init, amount |-> ZERO, params |-> cp.params,
             calculator |-> cp.calculator]

Digest_new_with_init_state(algorithm, init_state) ==
    LET cp == get_calculator_params(algorithm)
    IN IF panicked(cp) THEN PANICKED
       ELSE [state |-> init_state, amount |-> ZERO, params |-> cp.params,
             calculator |-> cp.calculator]

\* mutant: every update starts again from init
Digest_update_from_init(self, data) ==
    LET state == calculator_call(self.calculator, self.params.init, data, self.params)
        amount == add_assign(self.amount, as_u64(Len(data)))
    IN IF state = PANIC \/ amount = PANIC THEN PANICKED
       ELSE [self EXCEPT !.state = state, !.amount = amount]

Digest_update(self, data) ==
    LET state == calculator_call(self.calculator, self.state, data, self.params)
        amount == add_assign(self.amount, as_u64(Len(data)))
    IN IF state = PANIC \/ amount = PANIC THEN PANICKED
       ELSE [self EXCEPT !.state = state, !.amount = amount]

\* mutant: finalize hands out the raw state
Digest_finalize_raw(self) == self.state

Digest_finalize(self) == Xor(self.state, self.params.xorout)

\* mutant: reset clears the byte count and keeps the state
Digest_reset_keeps_state(self) == [self EXCEPT !.amount = ZERO]

Digest_reset(self) == [self EXCEPT !.state = self.params.init, !.amount = ZERO]

\* mutant: the length given to combine::checksums is self's own
Digest_combine_by_own_amount(self, other) ==
    LET amount == add_assign(self.amount, other.amount)
        other_crc == Digest_finalize(other)
    IN IF amount = PANIC THEN PANICKED
       ELSE [self EXCEPT !.amount = amount,
                         !.state = Xor(combine_checksums(Xor(self.state, self.params.xorout),
                                                         other_crc, self.amount, self.params),
                                       self.params.xorout)]

\* mutant: the two checksums change places
Digest_combine_swapped(self, other) ==
    LET amount == add_assign(self.amount, other.amount)
        other_crc == Digest_finalize(other)
    IN IF amount = PANIC THEN PANICKED
       ELSE [self EXCEPT !.amount = amount,
                         !.state = Xor(combine_checksums(other_crc,
                                                         Xor(self.state, self.params.xorout),
                                                         other.amount, self.params),
                                       self.params.xorout)]

\* mutant: the xorout already applied to self is not taken out again
Digest_combine_keeps_xorout(self, other) ==
    LET amount == add_assign(self.amount, other.amount)
        other_crc == Digest_finalize(other)
    IN IF amount = PANIC THEN PANICKED
       ELSE [self EXCEPT !.amount = amount,
                         !.state = Xor(combine_checksums(self.state, other_crc, other.amount,
                                                         self.params),
                                       self.params.xorout)]

Digest_combine(self, other) ==
    LET amount == add_assign(self.amount, other.amount)
        other_crc == Digest_finalize(other)
    IN IF amount = PANIC THEN PANICKED
       ELSE [self EXCEPT !.amount = amount,
                         !.state = Xor(combine_checksums(Xor(self.state, self.params.xorout),
                                                         other_crc, other.amount, self.params),
                                       self.params.xorout)]

----------------------------------------------------------------------------
(* The builds and machines the model runs the library on *)

Environment(arch, since_1_89, features) ==
    [target_arch |-> arch, rust_1_89 |-> since_1_89, cpu |-> features, static_features |-> {},
     overflow_checks |-> FALSE]

\* a machine for each path: the folding engine with both fusion paths, the
\* software fallback, and the x86 build without SSE4.1/PCLMULQDQ
Environments ==
    {Environment("aarch64", TRUE, {"neon", "aes", "sha3"}),
     Environment("other", TRUE, {}),
     Environment("x86", TRUE, {})}

\* and the remaining tiers
AllEnvironments ==
    Environments \cup
        {Environment("x86_64", TRUE, {"sse4.1", "pclmulqdq", "avx512vl", "vpclmulqdq"}),
         Environment("x86_64", TRUE, {"sse4.1", "pclmulqdq", "avx512vl"}),
         Environment("x86_64", FALSE, {"sse4.1", "pclmulqdq", "avx512vl", "vpclmulqdq"}),
         Environment("x86", FALSE, {"sse4.1", "pclmulqdq"}),
         Environment("aarch64", TRUE, {"neon", "aes"}),
         Environment("aarch64", FALSE, {"neon"})}

InitEnvironment(environments) ==
    \E e \in environments :
        /\ target_arch = e.target_arch
        /\ rust_1_89 = e.rust_1_89
        /\ cpu = e.cpu
        /\ static_features = e.static_features
        /\ overflow_checks = e.overflow_checks

\* the variables a specification does not use stay at these values
IdleDispatch == ARCH_OPS_INSTANCE = NONE /\ detections = 0
IdleCache == CACHE = NoCache /\ lock = FreeLock
IdleThreads == pc = <<>> /\ call = <<>> /\ ret = <<>> /\ calls = <<>>
IdleDigests ==
    variant = NONE /\ digest = <<>> /\ absorbed = <<>> /\ combined = <<>>

NoOutput == [op |-> "none"]

\* the effect of a call on the dispatch singleton: get_arch_ops runs
\* create_arch_ops if and only if the cell is empty
UseArchOps(used) ==
    IF used /\ once_runs(ARCH_OPS_INSTANCE)
    THEN ARCH_OPS_INSTANCE' = create_arch_ops /\ detections' = detections + 1
    ELSE UNCHANGED dispatchVars

----------------------------------------------------------------------------
(* Specification Spec: two Digest objects of one variant, driven through    *)
(* new / update / finalize / reset / combine by a single thread.            *)

MaxLen == 3
MaxPart == 2
Bytes == {49, 200}
Digests == {1, 2}

RECURSIVE BytesUpTo(_)
BytesUpTo(n) ==
    IF n = 0 THEN {<<>>}
    ELSE LET shorter == BytesUpTo(n - 1)
         IN shorter \cup {Append(s, b) : s \in {t \in shorter : Len(t) = n - 1}, b \in Bytes}

\* the bytes the digests hold between them
Stored == Len(absorbed[1]) + Len(absorbed[2])

Init ==
    /\ InitEnvironment(Environments)
    /\ IdleDispatch /\ IdleCache /\ IdleThreads
    /\ variant \in Catalogued
    /\ digest = [d \in Digests |-> Digest_new(variant)]
    /\ absorbed = [d \in Digests |-> <<>>]
    /\ combined = [d \in Digests |-> "no"]
    /\ out = NoOutput

DigestNew(d) ==
    /\ digest' = [digest EXCEPT ![d] = Digest_new(variant)]
    /\ absorbed' = [absorbed EXCEPT ![d] = <<>>]
    /\ combined' = [combined EXCEPT ![d] = "no"]
    /\ out' = NoOutput
    /\ UNCHANGED <<envVars, dispatchVars, cacheVars, threadVars, variant>>

DigestUpdate(d, data) ==
    /\ ~panicked(digest[d])
    /\ Stored + Len(data) <= MaxLen
    /\ digest' = [digest EXCEPT ![d] = Digest_update(digest[d], data)]
    /\ absorbed' = [absorbed EXCEPT ![d] = absorbed[d] \o data]
    /\ UNCHANGED combined
    /\ UseArchOps(calculator_uses_arch_ops(digest[d].calculator))
    /\ out' = [op |-> "update", d |-> d]
    /\ UNCHANGED <<envVars, cacheVars, threadVars, variant>>

DigestFinalize(d) ==
    /\ ~panicked(digest[d])
    /\ out' = [op |-> "finalize", d |-> d, value |-> Digest_finalize(digest[d])]
    /\ UNCHANGED <<envVars, dispatchVars, cacheVars, threadVars, digestVars>>

DigestReset(d) ==
    /\ ~panicked(digest[d])
    /\ digest' = [digest EXCEPT ![d] = Digest_reset(digest[d])]
    /\ absorbed' = [absorbed EXCEPT ![d] = <<>>]
    /\ combined' = [combined EXCEPT ![d] = "no"]
    /\ out' = NoOutput
    /\ UNCHANGED <<envVars, dispatchVars, cacheVars, threadVars, variant>>

DigestCombine(d, other) ==
    /\ d # other
    /\ ~panicked(digest[d]) /\ ~panicked(digest[other])
    /\ Stored + Len(absorbed[other]) <= MaxLen
    /\ digest' = [digest EXCEPT ![d] = Digest_combine(digest[d], digest[other])]
    /\ absorbed' = [absorbed EXCEPT ![d] = absorbed[d] \o absorbed[other]]
    /\ combined' = [combined EXCEPT ![d] =
                        IF absorbed[d] # <<>> /\ absorbed[other] # <<>> THEN "joined"
                        ELSE IF combined[d] = "joined" THEN "joined" ELSE "empty"]
    /\ out' = NoOutput
    /\ UNCHANGED <<envVars, dispatchVars, cacheVars, threadVars, variant>>

Next ==
    \/ \E d \in Digests : DigestNew(d)
    \/ \E d \in Digests : \E data \in BytesUpTo(MaxPart) : DigestUpdate(d, data)
    \/ \E d \in Digests : DigestFinalize(d)
    \/ \E d \in Digests : DigestReset(d)
    \/ \E d \in Digests : \E other \in Digests : DigestCombine(d, other)

Spec == Init /\ [][Next]_vars

----------------------------------------------------------------------------
(* Claims checked under Spec *)

\* what checksum(variant, S) returns for the bytes digest d has absorbed
OneShot(d) == checksum(variant, absorbed[d])

\* C1: stream equivalence.  A digest of a catalogued variant that was fed
\* S1, ..., Sk by update calls (any split, empty parts included) finalizes to
\* checksum(variant, S1 \o ... \o Sk), and so its state and amount depend
\* only on the concatenation.
C1_StreamEquivalence ==
    /\ \A d \in Digests :
          (~panicked(digest[d]) /\ combined[d] = "no" /\ OneShot(d) # PANIC) =>
              /\ Digest_finalize(digest[d]) = OneShot(d)
              /\ digest[d].amount = as_u64(Len(absorbed[d]))
    /\ (out.op = "finalize" /\ combined[out.d] = "no" /\ OneShot(out.d) # PANIC) =>
          out.value = OneShot(out.d)

\* a digest that took more bytes than one update call carries, finalized
C1_Witness ==
    /\ out.op = "finalize"
    /\ combined[out.d] = "no"
    /\ Len(absorbed[out.d]) > MaxPart
    /\ out.value = OneShot(out.d)

\* C3: after d1.combine(&d2) the digest d1 behaves like one that absorbed
\* A \o B: it finalizes to checksum(A \o B), and after a further update(C)
\* to checksum(A \o B \o C).
C3_CombineAppends ==
    /\ \A d \in Digests :
          (~panicked(digest[d]) /\ combined[d] # "no" /\ OneShot(d) # PANIC) =>
              /\ Digest_finalize(digest[d]) = OneShot(d)
              /\ digest[d].amount = as_u64(Len(absorbed[d]))
    /\ (out.op = "finalize" /\ combined[out.d] # "no" /\ OneShot(out.d) # PANIC) =>
          out.value = OneShot(out.d)

\* d1 absorbed a non-empty A, combined with a d2 holding a non-empty B, and
\* was then updated with a non-empty C
C3_Witness ==
    /\ out.op = "update"
    /\ combined[out.d] = "joined"
    /\ Len(absorbed[out.d]) = 3
    /\ Digest_finalize(digest[out.d]) = OneShot(out.d)

----------------------------------------------------------------------------
(* Specification ApiSpec: the one-shot calls (checksum, checksum_combine,   *)
(* and a calculator call from a given raw state), made by a single thread   *)
(* for one variant on one machine, on inputs drawn from small sets.         *)

MaxBuf == 2

\* consts.rs / test consts: the catalogue's check input "123456789"
TEST_CHECK_STRING == <<49, 50, 51, 52, 53, 54, 55, 56, 57>>

Buffers == BytesUpTo(MaxBuf) \cup {TEST_CHECK_STRING}

\* the two halves test_combine splits the check input into
Halves == {<<SubSeq(TEST_CHECK_STRING, 1, 4), SubSeq(TEST_CHECK_STRING, 5, 9)>>}

\* raw states to start a calculator from: init, zero, and an arbitrary word
StartStates(params) ==
    {params.init, ZERO, Low(u64(\hDEAD, \hBEEF, \h0123, \h4567), params.width)}

\* the calls a thread can make for a variant
ApiCalls(algorithm) ==
    [op : {"checksum"}, buf : Buffers]
        \cup [op : {"checksum_combine"}, a : BytesUpTo(MaxBuf), b : BytesUpTo(MaxBuf)]
        \cup {[op |-> "checksum_combine", a |-> h[1], b |-> h[2]] : h \in Halves}
        \cup [op : {"calculate"}, state : StartStates(get_calculator_params(algorithm).params),
              bytes : Buffers]

\* one call is about to be made: call holds its arguments
ApiInit ==
    /\ InitEnvironment(AllEnvironments)
    /\ IdleDispatch /\ IdleCache
    /\ variant \in Catalogued
    /\ call \in ApiCalls(variant)
    /\ pc = "call" /\ ret = <<>> /\ calls = <<>>
    /\ digest = <<>> /\ absorbed = <<>> /\ combined = <<>>
    /\ out = NoOutput

ApiChecksum ==
    /\ pc = "call" /\ call.op = "checksum"
    /\ out' = [op |-> "checksum", buf |-> call.buf, value |-> checksum(variant, call.buf)]
    /\ UseArchOps(calculator_uses_arch_ops(get_calculator_params(variant).calculator))
    /\ pc' = "done"
    /\ UNCHANGED <<envVars, cacheVars, call, ret, calls, digestVars>>

\* checksum(A), checksum(B), then checksum_combine of the two results
ApiChecksumCombine ==
    /\ pc = "call" /\ call.op = "checksum_combine"
    /\ LET checksum1 == checksum(variant, call.a)
           checksum2 == checksum(variant, call.b)
       IN /\ checksum1 # PANIC /\ checksum2 # PANIC
          /\ out' = [op |-> "checksum_combine", a |-> call.a, b |-> call.b,
                     value |-> checksum_combine(variant, checksum1, checksum2, as_u64(Len(call.b)))]
    /\ UseArchOps(calculator_uses_arch_ops(get_calculator_params(variant).calculator))
    /\ pc' = "done"
    /\ UNCHANGED <<envVars, cacheVars, call, ret, calls, digestVars>>

\* the variant's calculator, called as Digest::update calls it
ApiCalculate ==
    /\ pc = "call" /\ call.op = "calculate"
    /\ LET cp == get_calculator_params(variant)
       IN /\ out' = [op |-> "calculate", state |-> call.state, bytes |-> call.bytes,
                     value |-> calculator_call(cp.calculator, call.state, call.bytes, cp.params)]
          /\ UseArchOps(calculator_uses_arch_ops(cp.calculator))
    /\ pc' = "done"
    /\ UNCHANGED <<envVars, cacheVars, call, ret, calls, digestVars>>

ApiNext == ApiChecksum \/ ApiChecksumCombine \/ ApiCalculate

ApiSpec == ApiInit /\ [][ApiNext]_vars

----------------------------------------------------------------------------
(* Claims checked under ApiSpec *)

\* C2: checksum_combine(v, checksum(v, A), checksum(v, B), |B|) = checksum(v, A \o B)
\* for every catalogued variant and all byte strings A, B, empty ones included.
C2_CombineIsConcatenation ==
    out.op = "checksum_combine" => out.value = checksum(variant, out.a \o out.b)

\* two different non-empty strings were combined
C2_Witness ==
    /\ out.op = "checksum_combine"
    /\ out.a # <<>> /\ out.b # <<>> /\ out.a # out.b
    /\ get_calculator_params(variant).params.init # ZERO
    /\ out.value = checksum(variant, out.a \o out.b)

\* C4: for each of the 12 CRC-32 and 7 CRC-64 catalogued variants, a
\* checksum call on "123456789" that returns, returns the variant's check value.
C4_CheckValue ==
    (out.op = "checksum" /\ out.buf = TEST_CHECK_STRING /\ out.value # PANIC) =>
        out.value = get_calculator_params(variant).params.check

\* the check input went through the folding engine
C4_Witness ==
    /\ out.op = "checksum"
    /\ out.buf = TEST_CHECK_STRING
    /\ ARCH_OPS_INSTANCE = "X86_64Avx512Vpclmulqdq"
    /\ out.value = get_calculator_params(variant).params.check

----------------------------------------------------------------------------
(* Specification ThreadSpec: threads that call checksum, CrcParams::new     *)
(* followed by checksum_with_params, get_calculator_target and clear_cache. *)
(* Every lock operation of the key cache and the first-use initialisation   *)
(* of the dispatch singleton is a step of its own, so that the calls        *)
(* interleave; the lock can be poisoned at any time it is free.             *)

MaxCalls == 2
Threads == {1, 2}

ThreadEnvironments ==
    {Environment("aarch64", TRUE, {"neon", "aes", "sha3"}), Environment("other", TRUE, {})}

\* the Rocksoft parameters the threads build CrcParams from: those of
\* CRC-32/ISO-HDLC and CRC-32/BZIP2, which differ in the reflection flag only
CustomParameters ==
    {[width |-> 32, poly |-> CRC_32_ISO_HDLC.poly, init |-> ALL_ONES(32), reflected |-> TRUE,
      xorout |-> ALL_ONES(32), check |-> CRC_32_ISO_HDLC.check],
     [width |-> 32, poly |-> CRC_32_BZIP2.poly, init |-> ALL_ONES(32), reflected |-> FALSE,
      xorout |-> ALL_ONES(32), check |-> CRC_32_BZIP2.check],
     \* the polynomial and reflection of the first, with another init, xorout
     \* and check (CrcParams::new does not verify the check value)
     [width |-> 32, poly |-> CRC_32_ISO_HDLC.poly, init |-> ZERO, reflected |-> TRUE,
      xorout |-> ZERO, check |-> ZERO]}

\* generate::keys on those parameters, computed once
GeneratedKeys ==
    [g \in {<<c.width, c.poly, c.reflected>> : c \in CustomParameters} |->
        generate_keys(g[1], g[2], g[3])]
generated(width, poly, reflected) == GeneratedKeys[<<width, poly, reflected>>]

ThreadCalls ==
    [op : {"checksum"}, algorithm : {"Crc64Nvme"}, buf : {<<49>>}]
        \cup [op : {"checksum_with_params"}, p : CustomParameters, buf : {<<49>>}]
        \cup [op : {"get_calculator_target"}, algorithm : {"Crc64Nvme", "Crc32Iscsi"}]
        \cup [op : {"clear_cache"}]

NoCall == [op |-> "none"]

\* what a thread's call has seen and returned so far: the results of its
\* read and write attempts on the lock, the keys, the checksum, the target
NoReturn ==
    [read |-> "none", write |-> "none", keys |-> <<>>, value |-> ZERO, target |-> NONE,
     done |-> FALSE]

\* the cache key of a thread's CrcParams::new call
cache_key(t) == CrcParamsCacheKey_new(call[t].p.width, call[t].p.poly, call[t].p.reflected)

\* where a call starts, and where it goes on after get_or_generate_keys and
\* after get_arch_ops
first_step(c) ==
    CASE c.op = "checksum" ->
           IF calculator_uses_arch_ops(get_calculator_params(c.algorithm).calculator)
           THEN "get_arch_ops" ELSE "compute"
      [] c.op = "checksum_with_params" -> "read"
      [] c.op = "get_calculator_target" -> "get_arch_ops"
      [] c.op = "clear_cache" -> "clear"
after_keys == IF update_uses_arch_ops THEN "get_arch_ops" ELSE "compute"
after_arch_ops(c) == IF c.op = "get_calculator_target" THEN "target" ELSE "compute"

ThreadInit ==
    /\ InitEnvironment(ThreadEnvironments)
    /\ IdleDispatch /\ IdleCache /\ IdleDigests
    /\ pc = [t \in Threads |-> "idle"]
    /\ call = [t \in Threads |-> NoCall]
    /\ ret = [t \in Threads |-> NoReturn]
    /\ calls = [t \in Threads |-> 0]
    /\ out = NoOutput

\* the call returns
Finish(t, r) ==
    /\ ret' = [ret EXCEPT ![t] = [r EXCEPT !.done = TRUE]]
    /\ pc' = [pc EXCEPT ![t] = "idle"]
    /\ calls' = [calls EXCEPT ![t] = @ + 1]

Begin(t, c) ==
    /\ pc[t] = "idle" /\ calls[t] < MaxCalls
    /\ call' = [call EXCEPT ![t] = c]
    /\ ret' = [ret EXCEPT ![t] = NoReturn]
    /\ pc' = [pc EXCEPT ![t] = first_step(c)]
    /\ UNCHANGED <<envVars, dispatchVars, cacheVars, calls, digestVars, out>>

\* get_arch_ops: OnceLock::get_or_init starts the closure on an empty cell,
\* waits while another thread runs it, and reads a filled cell
GetArchOps(t) ==
    /\ pc[t] = "get_arch_ops"
    /\ ARCH_OPS_INSTANCE # "initializing"
    /\ IF once_runs(ARCH_OPS_INSTANCE)
       THEN /\ ARCH_OPS_INSTANCE' = "initializing"
            /\ pc' = [pc EXCEPT ![t] = "detect"]
       ELSE /\ UNCHANGED ARCH_OPS_INSTANCE
            /\ pc' = [pc EXCEPT ![t] = after_arch_ops(call[t])]
    /\ UNCHANGED <<envVars, detections, cacheVars, call, ret, calls, digestVars, out>>

\* create_arch_ops, the closure: detection and tier selection
Detect(t) ==
    /\ pc[t] = "detect"
    /\ ARCH_OPS_INSTANCE' = create_arch_ops
    /\ detections' = detections + 1
    /\ pc' = [pc EXCEPT ![t] = after_arch_ops(call[t])]
    /\ UNCHANGED <<envVars, cacheVars, call, ret, calls, digestVars, out>>

\* get_calculator_target: the target string of the instance
Target(t) ==
    /\ pc[t] = "target"
    /\ Finish(t, [ret[t] EXCEPT !.target = get_target_string(ARCH_OPS_INSTANCE)])
    /\ UNCHANGED <<envVars, dispatchVars, cacheVars, call, digestVars, out>>

\* checksum, or checksum_with_params on the CrcParams just built
Compute(t) ==
    /\ pc[t] = "compute"
    /\ LET c == call[t]
           params == CrcParams_new(c.p.width, c.p.poly, c.p.init, c.p.reflected, c.p.xorout,
                                   c.p.check, ret[t].keys)
           value == IF c.op = "checksum" THEN checksum(c.algorithm, c.buf)
                    ELSE IF panicked(params) THEN PANIC
                    ELSE checksum_with_params(params, c.buf)
       IN Finish(t, [ret[t] EXCEPT !.value = value])
    /\ UNCHANGED <<envVars, dispatchVars, cacheVars, call, digestVars, out>>

\* get_or_generate_keys: get_cache().read()
ReadLock(t) ==
    /\ pc[t] = "read"
    /\ lock.writers = {}
    /\ CACHE' = get_cache(CACHE)
    /\ LET result == rwlock_result(lock)
       IN /\ lock' = IF read_phase(result) = "lookup"
                     THEN [lock EXCEPT !.readers = @ \cup {t}] ELSE lock
          /\ ret' = [ret EXCEPT ![t].read = result]
          /\ pc' = [pc EXCEPT ![t] = read_phase(result)]
    /\ UNCHANGED <<envVars, dispatchVars, call, calls, digestVars, out>>

\* mutant: the read guard is kept after a miss
Lookup_keeps_guard(t) ==
    /\ pc[t] = "lookup"
    /\ LET hit == HashMap_get(CACHE.map, cache_key(t))
       IN IF hit.found
          THEN /\ ret' = [ret EXCEPT ![t].read = "hit", ![t].keys = hit.keys]
               /\ pc' = [pc EXCEPT ![t] = after_keys]
               /\ lock' = [lock EXCEPT !.readers = @ \ {t}]
          ELSE /\ ret' = [ret EXCEPT ![t].read = "miss"]
               /\ pc' = [pc EXCEPT ![t] = "generate"]
               /\ lock' = lock
    /\ UNCHANGED <<envVars, dispatchVars, CACHE, call, calls, digestVars, out>>

\* cache.get(&cache_key) under the read guard: a hit returns the stored keys
Lookup(t) ==
    /\ pc[t] = "lookup"
    /\ lock' = [lock EXCEPT !.readers = @ \ {t}]
    /\ LET hit == HashMap_get(CACHE.map, cache_key(t))
       IN IF hit.found
          THEN /\ ret' = [ret EXCEPT ![t].read = "hit", ![t].keys = hit.keys]
               /\ pc' = [pc EXCEPT ![t] = after_keys]
          ELSE /\ ret' = [ret EXCEPT ![t].read = "miss"]
               /\ pc' = [pc EXCEPT ![t] = "generate"]
    /\ UNCHANGED <<envVars, dispatchVars, CACHE, call, calls, digestVars, out>>

\* generate::keys, outside any lock
Generate(t) ==
    /\ pc[t] = "generate"
    /\ ret' = [ret EXCEPT ![t].keys = generated(call[t].p.width, call[t].p.poly,
                                                 call[t].p.reflected)]
    /\ pc' = [pc EXCEPT ![t] = "write"]
    /\ UNCHANGED <<envVars, dispatchVars, cacheVars, call, calls, digestVars, out>>

\* get_cache().write()
WriteLock(t) ==
    /\ pc[t] = "write"
    /\ lock.readers = {} /\ lock.writers = {}
    /\ CACHE' = get_cache(CACHE)
    /\ LET result == rwlock_result(lock)
           next == write_phase(result)
       IN /\ lock' = IF next = "insert" THEN [lock EXCEPT !.writers = {t}] ELSE lock
          /\ ret' = [ret EXCEPT ![t].write = result]
          /\ pc' = [pc EXCEPT ![t] = IF next = "return" THEN after_keys ELSE next]
    /\ UNCHANGED <<envVars, dispatchVars, call, calls, digestVars, out>>

\* cache.insert(cache_key, keys) under the write guard
Insert(t) ==
    /\ pc[t] = "insert"
    /\ CACHE' = [CACHE EXCEPT !.map = HashMap_insert(@, cache_key(t), ret[t].keys)]
    /\ lock' = [lock EXCEPT !.writers = {}]
    /\ pc' = [pc EXCEPT ![t] = after_keys]
    /\ UNCHANGED <<envVars, dispatchVars, call, ret, calls, digestVars, out>>

\* clear_cache: get_cache().write(), an Err is dropped
ClearLock(t) ==
    /\ pc[t] = "clear"
    /\ lock.readers = {} /\ lock.writers = {}
    /\ CACHE' = get_cache(CACHE)
    /\ LET result == rwlock_result(lock)
       IN IF result = "Ok"
          THEN /\ lock' = [lock EXCEPT !.writers = {t}]
               /\ ret' = [ret EXCEPT ![t].write = result]
               /\ pc' = [pc EXCEPT ![t] = "clearing"]
               /\ UNCHANGED calls
          ELSE /\ UNCHANGED lock
               /\ Finish(t, [ret[t] EXCEPT !.write = result])
    /\ UNCHANGED <<envVars, dispatchVars, call, digestVars, out>>

\* cache.clear() under the write guard
Clear(t) ==
    /\ pc[t] = "clearing"
    /\ CACHE' = [CACHE EXCEPT !.map = HashMap_clear(@)]
    /\ lock' = [lock EXCEPT !.writers = {}]
    /\ Finish(t, ret[t])
    /\ UNCHANGED <<envVars, dispatchVars, call, digestVars, out>>

\* a thread of the embedding program panics while it holds the write guard:
\* the lock stays poisoned from then on
Poison ==
    /\ lock.readers = {} /\ lock.writers = {}
    /\ ~lock.poisoned
    /\ lock' = [lock EXCEPT !.poisoned = TRUE]
    /\ UNCHANGED <<envVars, dispatchVars, CACHE, threadVars, digestVars, out>>

ThreadNext ==
    \/ \E t \in Threads : \E c \in ThreadCalls : Begin(t, c)
    \/ \E t \in Threads : GetArchOps(t)
    \/ \E t \in Threads : Detect(t)
    \/ \E t \in Threads : Target(t)
    \/ \E t \in Threads : Compute(t)
    \/ \E t \in Threads : ReadLock(t)
    \/ \E t \in Threads : Lookup(t)
    \/ \E t \in Threads : Generate(t)
    \/ \E t \in Threads : WriteLock(t)
    \/ \E t \in Threads : Insert(t)
    \/ \E t \in Threads : ClearLock(t)
    \/ \E t \in Threads : Clear(t)
    \/ Poison

ThreadSpec == ThreadInit /\ [][ThreadNext]_vars

----------------------------------------------------------------------------
(* Claims checked under ThreadSpec *)

\* thread t's CrcParams::new call has its keys back from get_or_generate_keys
KeysReturned(t) ==
    /\ call[t].op = "checksum_with_params"
    /\ \/ ret[t].read = "hit"
       \/ ret[t].write # "none" /\ pc[t] \notin {"insert", "panic"}

\* generate::keys on the arguments of thread t's call
Expected(t) == generated(call[t].p.width, call[t].p.poly, call[t].p.reflected)

\* C6: two threads whose calls of checksum, or of checksum_with_params on
\* CrcParams built from the same parameters, had the same inputs got the same
\* result, however the calls interleaved with each other, with the first use
\* of the dispatch singleton and with the first use of the key cache.
C6_ConcurrentChecksumsAgree ==
    \A t \in Threads : \A u \in Threads :
        (/\ ret[t].done /\ ret[u].done
         /\ call[t].op \in {"checksum", "checksum_with_params"}
         /\ call[t] = call[u]) => ret[t].value = ret[u].value

\* both threads missed the empty cache, both inserted, and the folding
\* engine computed both results
C6_Witness ==
    /\ ret[1].done /\ ret[2].done
    /\ call[1].op = "checksum_with_params" /\ call[1] = call[2]
    /\ calls[1] = 1 /\ calls[2] = 1
    /\ ret[1].read = "miss" /\ ret[2].read = "miss"
    /\ ret[1].write = "Ok" /\ ret[2].write = "Ok"
    /\ ARCH_OPS_INSTANCE = "Aarch64AesSha3"
    /\ ret[1].value = ret[2].value
    /\ ret[1].value = Xor(ALL_ONES(32), software_update(ALL_ONES(32), <<49>>, CRC32_ISO_HDLC))

\* C7: every get_or_generate_keys(w, P, r) call that has returned, returned
\* generate::keys(w, P, r), and every value stored in the cache is
\* generate::keys of the key it is stored under.
C7_KeysAreGenerated ==
    /\ \A t \in Threads : KeysReturned(t) => ret[t].keys = Expected(t)
    /\ \A k \in DOMAIN CACHE.map : CACHE.map[k] = generated(k.width, k.poly, k.reflected)

\* one thread hit the entry the other inserted, in a cache that holds the
\* entries of both keys
C7_Witness ==
    /\ KeysReturned(1) /\ KeysReturned(2)
    /\ ret[1].read = "hit" /\ ret[2].write = "Ok"
    /\ call[1].p = call[2].p
    /\ calls[2] = 1
    /\ Cardinality(DOMAIN CACHE.map) = 2
    /\ ret[1].keys = Expected(1)

\* C8: no call panics on a poisoned lock, and a get_or_generate_keys call
\* whose read or write attempt failed on the poisoned lock returns
\* generate::keys of its arguments, from which CrcParams::new builds params.
C8_PoisonInvisible ==
    \A t \in Threads :
        /\ pc[t] # "panic"
        /\ (KeysReturned(t) /\ (ret[t].read = "Err" \/ ret[t].write = "Err")) =>
              /\ ret[t].keys = Expected(t)
              /\ ~panicked(CrcParams_new(call[t].p.width, call[t].p.poly, call[t].p.init,
                                         call[t].p.reflected, call[t].p.xorout,
                                         call[t].p.check, ret[t].keys))

\* one call found the lock poisoned on read and on write, another missed on
\* a sound lock and found it poisoned on write; both went on to their checksum
C8_Witness ==
    /\ lock.poisoned
    /\ ret[1].read = "Err" /\ ret[1].write = "Err" /\ ret[1].done
    /\ ret[2].read = "miss" /\ ret[2].write = "Err" /\ ret[2].done
    /\ ret[1].keys = Expected(1) /\ ret[2].keys = Expected(2)
    /\ CACHE.map = <<>>

\* C9: detection and tier selection run at most once, the instance exists
\* exactly from then on, and every get_calculator_target call that has
\* returned, from either thread and for either algorithm, returned the target
\* string of the instance as it is now.
C9_DispatchOnce ==
    /\ detections <= 1
    /\ (detections = 0) <=> (ARCH_OPS_INSTANCE \in {NONE, "initializing"})
    /\ \A t \in Threads :
          (ret[t].done /\ call[t].op = "get_calculator_target") =>
              ret[t].target = get_target_string(ARCH_OPS_INSTANCE)

\* both threads asked for the target, for different algorithms, one of them
\* in a later call than the one that created the instance
C9_Witness ==
    /\ detections = 1
    /\ ret[1].done /\ ret[2].done
    /\ call[1].op = "get_calculator_target" /\ call[2].op = "get_calculator_target"
    /\ call[1].algorithm # call[2].algorithm
    /\ calls[1] = 2
    /\ ret[1].target = "aarch64-neon-pmull-sha3" /\ ret[2].target = ret[1].target

----------------------------------------------------------------------------
(* Specification TierSpec: tier selection on its own.  A capability vector  *)
(* is either what feature detection reports on the machine, to which       *)
(* create_arch_ops applies select_performance_tier, or any ArchCapabilities *)
(* value built field by field, to which the unit tests apply                *)
(* select_performance_tier_for_test.                                        *)

TierFeatures(arch) ==
    CASE arch \in {"x86", "x86_64"} -> {"sse4.1", "pclmulqdq", "avx512vl", "vpclmulqdq"}
      [] arch = "aarch64" -> {"aes", "sha3"}
      [] OTHER -> {}

TierEnvironments ==
    {Environment(arch, since, features) :
        arch \in {"aarch64", "x86_64", "x86", "other"}, since \in BOOLEAN,
        features \in SUBSET {"sse4.1", "pclmulqdq", "avx512vl", "vpclmulqdq", "aes", "sha3"}}

TierInit ==
    /\ \E e \in TierEnvironments :
          /\ e.cpu \subseteq TierFeatures(e.target_arch)
          /\ InitEnvironment({e})
    /\ IdleDispatch /\ IdleCache /\ IdleDigests
    /\ pc = <<"start">>
    /\ call = <<NoCall>>
    /\ ret = <<NoReturn>>
    /\ calls = <<0>>
    /\ out = NoOutput

\* create_arch_ops, first statement: the vector is what detection reports
TierDetect ==
    /\ pc[1] = "start"
    /\ call' = <<[op |-> "detected", capabilities |-> detect_arch_capabilities]>>
    /\ pc' = <<"select">>
    /\ UNCHANGED <<envVars, dispatchVars, cacheVars, ret, calls, digestVars, out>>

\* a caller builds the vector field by field
TierGiven(capabilities) ==
    /\ pc[1] = "start"
    /\ call' = <<[op |-> "given", capabilities |-> capabilities]>>
    /\ pc' = <<"select">>
    /\ UNCHANGED <<envVars, dispatchVars, cacheVars, ret, calls, digestVars, out>>

\* create_arch_ops, the rest: select_performance_tier on the detected vector
\* (its only caller), and the instance built from the tier
TierSelect ==
    /\ pc[1] = "select"
    /\ call[1].op = "detected"
    /\ LET tier == select_performance_tier(call[1].capabilities)
       IN out' = [op |-> "select_performance_tier", from |-> call[1].op,
                  capabilities |-> call[1].capabilities, tier |-> tier,
                  instance |-> create_arch_ops_from_tier(tier)]
    /\ pc' = <<"done">>
    /\ calls' = <<calls[1] + 1>>
    /\ UNCHANGED <<envVars, dispatchVars, cacheVars, call, ret, digestVars>>

\* select_performance_tier_for_test (cfg(test)), which ignores the target
TierSelectForTest ==
    /\ pc[1] = "select"
    /\ call[1].op = "given"
    /\ LET tier == select_performance_tier_for_test(call[1].capabilities)
       IN out' = [op |-> "select_performance_tier_for_test", from |-> call[1].op,
                  capabilities |-> call[1].capabilities, tier |-> tier,
                  instance |-> NONE]
    /\ pc' = <<"done">>
    /\ calls' = <<calls[1] + 1>>
    /\ UNCHANGED <<envVars, dispatchVars, cacheVars, call, ret, digestVars>>

TierNext ==
    \/ TierDetect
    \/ \E capabilities \in ArchCapabilities : TierGiven(capabilities)
    \/ TierSelect
    \/ TierSelectForTest

TierSpec == TierInit /\ [][TierNext]_vars

\* the prerequisites the claim names for each tier
Prerequisites(tier, c) ==
    CASE tier = "X86_64Avx512Vpclmulqdq" ->
             c.has_vpclmulqdq /\ c.has_avx512vl /\ c.has_pclmulqdq /\ c.has_sse41
                /\ c.rust_version_supports_avx512
      [] tier = "X86_64Avx512Pclmulqdq" ->
             c.has_avx512vl /\ c.has_pclmulqdq /\ c.rust_version_supports_avx512
      [] tier \in {"X86_64SsePclmulqdq", "X86SsePclmulqdq"} -> c.has_sse41 /\ c.has_pclmulqdq
      [] tier = "AArch64AesSha3" -> c.has_sha3 /\ c.has_aes
      [] tier = "AArch64Aes" -> c.has_aes
      [] tier = "SoftwareTable" -> TRUE

\* the tiers a selection function chooses among, highest first
TierOrder(op) ==
    CASE op = "select_performance_tier_for_test" ->
             <<"AArch64AesSha3", "AArch64Aes", "X86_64Avx512Vpclmulqdq",
               "X86_64Avx512Pclmulqdq", "X86_64SsePclmulqdq", "SoftwareTable">>
      [] op = "select_performance_tier" /\ target_arch = "aarch64" ->
             <<"AArch64AesSha3", "AArch64Aes", "SoftwareTable">>
      [] op = "select_performance_tier" /\ target_arch = "x86_64" ->
             <<"X86_64Avx512Vpclmulqdq", "X86_64Avx512Pclmulqdq", "X86_64SsePclmulqdq",
               "SoftwareTable">>
      [] op = "select_performance_tier" /\ target_arch = "x86" ->
             <<"X86SsePclmulqdq", "SoftwareTable">>
      [] OTHER -> <<"SoftwareTable">>

HighestTier(order, c) ==
    LET i == CHOOSE j \in 1..Len(order) :
                 /\ Prerequisites(order[j], c)
                 /\ \A k \in 1..(j - 1) : ~Prerequisites(order[k], c)
    IN order[i]

\* C10: for every capability vector, tier selection returns the highest tier
\* whose prerequisites (VPCLMULQDQ: AVX512VL, PCLMULQDQ, SSE4.1 and the
\* toolchain; AVX-512: PCLMULQDQ and the toolchain; SSE: SSE4.1 and
\* PCLMULQDQ; SHA3: AES) all hold, and never a tier with a missing
\* prerequisite; otherwise the software fallback.
C10_HighestSatisfiedTier ==
    out.op \in {"select_performance_tier", "select_performance_tier_for_test"} =>
        /\ Prerequisites(out.tier, out.capabilities)
        /\ out.tier = HighestTier(TierOrder(out.op), out.capabilities)

----------------------------------------------------------------------------
(* The toolchain gate (TierSpec) *)

WideTiers == {"X86_64Avx512Vpclmulqdq", "X86_64Avx512Pclmulqdq"}

\* C11: in a build by a compiler older than Rust 1.89, whatever the CPU
\* reports, create_arch_ops neither selects nor instantiates an AVX-512 or
\* VPCLMULQDQ tier, and on an x86_64 CPU with SSE4.1 and PCLMULQDQ it selects
\* and instantiates the SSE PCLMULQDQ tier; select_performance_tier_for_test
\* does the same on every vector whose toolchain flag is false.
C11_ToolchainGate ==
    /\ (out.op = "select_performance_tier" /\ ~rust_1_89) =>
          /\ out.tier \notin WideTiers
          /\ out.instance \notin WideTiers
          /\ (target_arch = "x86_64" /\ {"sse4.1", "pclmulqdq"} \subseteq cpu) =>
                (out.tier = "X86_64SsePclmulqdq" /\ out.instance = "X86SsePclmulqdq")
    /\ (out.op = "select_performance_tier_for_test"
          /\ ~out.capabilities.rust_version_supports_avx512) =>
          /\ out.tier \notin WideTiers
          /\ (out.capabilities.has_sse41 /\ out.capabilities.has_pclmulqdq
                /\ ~out.capabilities.has_aes) => out.tier = "X86_64SsePclmulqdq"

\* an x86_64 build by an old compiler on a CPU with every wide feature has
\* run create_arch_ops
C11_Witness ==
    /\ out.op = "select_performance_tier"
    /\ ~rust_1_89
    /\ target_arch = "x86_64"
    /\ cpu = {"sse4.1", "pclmulqdq", "avx512vl", "vpclmulqdq"}
    /\ out.instance = "X86SsePclmulqdq"

----------------------------------------------------------------------------
(* The software fallback (ApiSpec) *)

\* C12: whenever the dispatch instance is the software-fallback marker (or
\* the target has no dispatch at all), a calculator call through arch::update
\* does not panic and returns the raw state the table-driven software
\* implementation computes, on x86, x86_64, aarch64 and every other target.
C12_FallbackComputes ==
    (/\ out.op = "calculate"
     /\ get_calculator_params(variant).calculator = "Calculator::calculate"
     /\ (ARCH_OPS_INSTANCE = "SoftwareFallback" \/ ~update_uses_arch_ops)) =>
        /\ out.value # PANIC
        /\ out.value = software_update(out.state, out.bytes,
                                       get_calculator_params(variant).params)

----------------------------------------------------------------------------
(* Specification HaltSpec: one call of the public API per behaviour, with   *)
(* any algorithm tag (the sentinel tags Crc32Custom and Crc64Custom         *)
(* included), CrcParams whose public fields hold anything, and any width    *)
(* given to CrcParams::new; the outcome records whether the call panicked.  *)

HaltBuffers == {<<>>, <<49>>}

\* CrcParams as a caller can build them, the fields being public: the tag
\* of the catalogue, a sentinel tag, a tag of the other width, another width
HaltParams ==
    {[CRC32_BZIP2 EXCEPT !.algorithm = t] : t \in {"Crc32Bzip2", "Crc32Custom", "Crc64Nvme"}}
        \cup {[CRC64_NVME EXCEPT !.algorithm = t] : t \in {"Crc64Nvme", "Crc64Custom", "Crc32Bzip2"}}
        \cup {[CRC32_BZIP2 EXCEPT !.width = 16]}

HaltCalls ==
    [op : {"checksum"}, algorithm : CrcAlgorithm, buf : HaltBuffers]
        \cup [op : {"checksum_with_params"}, params : HaltParams, buf : HaltBuffers]
        \cup [op : {"checksum_combine"}, algorithm : CrcAlgorithm, buf : HaltBuffers]
        \cup [op : {"Digest"}, algorithm : CrcAlgorithm, buf : HaltBuffers]
        \cup [op : {"CrcParams::new"}, width : {16, 32, 64}, reflected : BOOLEAN]

HaltInit ==
    /\ InitEnvironment(AllEnvironments)
    /\ IdleDispatch /\ IdleCache /\ IdleDigests
    /\ call \in HaltCalls
    /\ pc = "call" /\ ret = <<>> /\ calls = <<>>
    /\ out = NoOutput

Returned(panic) == [op |-> call.op, call |-> call, panicked |-> panic]

HaltChecksum ==
    /\ pc = "call" /\ call.op = "checksum"
    /\ LET cp == get_calculator_params(call.algorithm)
       IN /\ out' = Returned(checksum(call.algorithm, call.buf) = PANIC)
          /\ UseArchOps(~panicked(cp) /\ calculator_uses_arch_ops(cp.calculator))
    /\ pc' = "done"
    /\ UNCHANGED <<envVars, cacheVars, call, ret, calls, digestVars>>

HaltChecksumWithParams ==
    /\ pc = "call" /\ call.op = "checksum_with_params"
    /\ out' = Returned(checksum_with_params(call.params, call.buf) = PANIC)
    /\ UseArchOps(update_uses_arch_ops)
    /\ pc' = "done"
    /\ UNCHANGED <<envVars, cacheVars, call, ret, calls, digestVars>>

\* checksum_combine on two checksums of the variant's width
HaltChecksumCombine ==
    /\ pc = "call" /\ call.op = "checksum_combine"
    /\ out' = Returned(checksum_combine(call.algorithm, ZERO, ALL_ONES(32), as_u64(Len(call.buf)))
                          = PANIC)
    /\ pc' = "done"
    /\ UNCHANGED <<envVars, dispatchVars, cacheVars, call, ret, calls, digestVars>>

\* Digest::new, update, finalize, and combine with a second digest
HaltDigest ==
    /\ pc = "call" /\ call.op = "Digest"
    /\ LET cp == get_calculator_params(call.algorithm)
           new == Digest_new(call.algorithm)
           updated == IF panicked(new) THEN PANICKED ELSE Digest_update(new, call.buf)
       IN /\ out' = Returned(panicked(updated))
          /\ digest' = IF panicked(updated) THEN <<>>
                       ELSE <<Digest_combine(updated, updated)>>
          /\ UseArchOps(~panicked(cp) /\ calculator_uses_arch_ops(cp.calculator))
    /\ pc' = "done"
    /\ UNCHANGED <<envVars, cacheVars, call, ret, calls, variant, absorbed, combined>>

\* CrcParams::new: get_or_generate_keys on an idle cache, then the width match
HaltCrcParamsNew ==
    /\ pc = "call" /\ call.op = "CrcParams::new"
    /\ LET poly == CRC_32_BZIP2.poly
           key == CrcParamsCacheKey_new(call.width, poly, call.reflected)
           keys == generate_keys(call.width, poly, call.reflected)
       IN /\ CACHE' = [created |-> TRUE, map |-> HashMap_insert(CACHE.map, key, keys)]
          /\ out' = Returned(panicked(CrcParams_new(call.width, poly, ZERO, call.reflected,
                                                    ZERO, ZERO, keys)))
    /\ pc' = "done"
    /\ UNCHANGED <<envVars, dispatchVars, lock, call, ret, calls, digestVars>>

HaltNext ==
    \/ HaltChecksum
    \/ HaltChecksumWithParams
    \/ HaltChecksumCombine
    \/ HaltDigest
    \/ HaltCrcParamsNew

HaltSpec == HaltInit /\ [][HaltNext]_vars

\* the width the call computes with
call_width(c) ==
    CASE c.op = "CrcParams::new" -> c.width
      [] c.op = "checksum_with_params" -> c.params.width
      [] OTHER -> 32

\* the "features missing" halt of arch::update: the instance is the
\* software-fallback marker on a target whose arm panics
impossible_tier_halt ==
    /\ target_arch \in {"x86", "x86_64"}
    /\ create_arch_ops = "SoftwareFallback"

\* C13: the only halts are an unsupported width and the impossible-tier
\* halt: every other call of checksum, checksum_with_params,
\* checksum_combine, Digest::new/update/finalize/combine and CrcParams::new
\* returns, whatever the algorithm tag (sentinel tags included) and whatever
\* the params hold.
C13_OnlyTwoHalts ==
    (out.op # "none" /\ out.panicked) =>
        \/ call_width(out.call) \notin {32, 64}
        \/ impossible_tier_halt

----------------------------------------------------------------------------
(* Specification FileSpec: checksum_file on a file of a few bytes.  Opening *)
(* the file and every read of it is a step whose result the operating       *)
(* system chooses: File::open returns the file or an error, read returns    *)
(* Ok(n) with at most as many bytes as the buffer holds (0 at the end of    *)
(* the file and for a buffer of no bytes) or an error.                      *)

MaxFile == 3
MaxChunk == 2
FileVariants == {"Crc32IsoHdlc", "Crc64Nvme"}

\* chunk_size.unwrap_or(524288)
DEFAULT_CHUNK_SIZE == 524288
unwrap_or(option, default) == IF option.some THEN option.value ELSE default

\* the chunk_size arguments: None, Some(0), Some(1), ...
ChunkSizes == {[some |-> FALSE]} \cup {[some |-> TRUE, value |-> n] : n \in 0..MaxChunk}

FileInit ==
    /\ InitEnvironment(ThreadEnvironments)
    /\ IdleDispatch /\ IdleCache
    /\ variant \in FileVariants
    /\ call \in [op : {"checksum_file"}, file : BytesUpTo(MaxFile), chunk_size : ChunkSizes]
    /\ pc = "open" /\ ret = <<>> /\ calls = 0
    /\ digest = <<>> /\ absorbed = <<>> /\ combined = <<>>
    /\ out = NoOutput

\* checksum_file: Digest::new(algorithm), then File::open(path)?
FileOpen(result) ==
    /\ pc = "open"
    /\ digest' = <<Digest_new(variant)>>
    /\ absorbed' = <<<<>>>>
    /\ IF result = "Ok"
       THEN pc' = "read" /\ out' = out
       ELSE pc' = "done" /\ out' = [op |-> "checksum_file", result |-> "Err", failed |-> "open"]
    /\ UNCHANGED <<envVars, dispatchVars, cacheVars, call, ret, calls, variant, combined>>

\* one turn of `while let Ok(n) = file.read(&mut buf)`, and the return
\* after the loop when the turn leaves it
FileRead(result) ==
    /\ pc = "read"
    /\ LET pos == Len(absorbed[1])
           left == Len(call.file) - pos
           buf == unwrap_or(call.chunk_size, DEFAULT_CHUNK_SIZE)
       IN IF ~result.ok
          THEN \* the pattern does not match: the loop ends
               /\ out' = [op |-> "checksum_file", result |-> "Ok", failed |-> "read",
                          value |-> Digest_finalize(digest[1])]
               /\ pc' = "done"
               /\ UNCHANGED <<dispatchVars, digest, absorbed, calls>>
          ELSE /\ result.n \in (IF left = 0 \/ buf = 0 THEN {0} ELSE 1..left)
               /\ result.n <= buf
               /\ IF result.n = 0
                  THEN /\ out' = [op |-> "checksum_file", result |-> "Ok", failed |-> "none",
                                  value |-> Digest_finalize(digest[1])]
                       /\ pc' = "done"
                       /\ UNCHANGED <<dispatchVars, digest, absorbed, calls>>
                  ELSE LET data == SubSeq(call.file, pos + 1, pos + result.n)
                       IN /\ digest' = <<Digest_update(digest[1], data)>>
                          /\ absorbed' = <<absorbed[1] \o data>>
                          /\ calls' = calls + 1
                          /\ UseArchOps(calculator_uses_arch_ops(digest[1].calculator))
                          /\ UNCHANGED <<pc, out>>
    /\ UNCHANGED <<envVars, cacheVars, call, ret, variant, combined>>

FileNext ==
    \/ \E result \in {"Ok", "Err"} : FileOpen(result)
    \/ \E result \in {[ok |-> FALSE]} \cup [ok : {TRUE}, n : 0..MaxFile] : FileRead(result)

FileSpec == FileInit /\ [][FileNext]_vars

\* C14: if opening the file or any read of it fails, checksum_file returns
\* that error, never a checksum computed over only part of the file.
C14_IoErrorsSurface ==
    (out.op = "checksum_file" /\ out.failed # "none") => out.result = "Err"

----------------------------------------------------------------------------
(* ffi.rs: the C interface's parameter struct and its conversion *)

\* a C pointer to an array of u64: null, or the array it points to
NullPointer == [null |-> TRUE]
Pointer(array) == [null |-> FALSE, at |-> array]

None == [some |-> FALSE]
Some(v) == [some |-> TRUE, value |-> v]

\* try_params_from_ffi: the slice holds key_count keys, so try_into succeeds
\* exactly when the count is that of the storage variant
try_params_from_ffi(value) ==
    IF value.keys.null THEN None
    ELSE CASE value.key_count = 23 ->
                Some(CrcParams(value.algorithm, value.width, value.poly, value.init,
                               value.refin, value.refout, value.xorout, value.check,
                               from_keys_fold_256(value.keys.at)))
           [] value.key_count = 25 ->
                Some(CrcParams(value.algorithm, value.width, value.poly, value.init,
                               value.refin, value.refout, value.xorout, value.check,
                               from_keys_fold_future_test(value.keys.at)))
           [] OTHER -> None

----------------------------------------------------------------------------
(* Specification ParamsSpec: the two ways CrcParams are built for a         *)
(* computation, CrcParams::new and the conversion of a CrcFastParams struct *)
(* that a C caller filled in (crc_fast_checksum_with_params).               *)

ParamsBases == {CRC_32_ISO_HDLC, CRC_64_NVME}

\* generate::keys on the bases, for both reflection flags, computed once
ParamsKeys ==
    [g \in {<<a.width, a.poly, r>> : a \in ParamsBases, r \in BOOLEAN} |->
        generate_keys(g[1], g[2], g[3])]

\* the key array a C caller passes: key_count slots, the generated keys first
ffi_keys(a, reflected, count) ==
    [i \in 0..(count - 1) |->
        IF i < KEY_COUNT THEN ParamsKeys[<<a.width, a.poly, reflected>>][i] ELSE ZERO]

CrcFastParams ==
    {[algorithm |-> IF a.width = 32 THEN "Crc32Custom" ELSE "Crc64Custom",
      width |-> a.width, poly |-> a.poly, init |-> a.init, refin |-> refin,
      refout |-> refout, xorout |-> a.xorout, check |-> a.check, key_count |-> count,
      keys |-> IF null THEN NullPointer ELSE Pointer(ffi_keys(a, refin, count))] :
        a \in ParamsBases, refin \in BOOLEAN, refout \in BOOLEAN,
        count \in {22, 23, 25}, null \in BOOLEAN}

ParamsInit ==
    /\ InitEnvironment(ThreadEnvironments)
    /\ IdleDispatch /\ IdleCache /\ IdleDigests
    /\ call \in [op : {"CrcParams::new"}, a : ParamsBases, reflected : BOOLEAN]
                  \cup [op : {"crc_fast_checksum_with_params"}, params : CrcFastParams]
    /\ pc = "call" /\ ret = <<>> /\ calls = <<>>
    /\ out = NoOutput

\* CrcParams::new on an idle cache, then checksum_with_params
ParamsNew ==
    /\ pc = "call" /\ call.op = "CrcParams::new"
    /\ LET a == call.a
           key == CrcParamsCacheKey_new(a.width, a.poly, call.reflected)
           keys == ParamsKeys[<<a.width, a.poly, call.reflected>>]
           params == CrcParams_new(a.width, a.poly, a.init, call.reflected, a.xorout,
                                   a.check, keys)
       IN /\ CACHE' = [created |-> TRUE, map |-> HashMap_insert(CACHE.map, key, keys)]
          /\ out' = [op |-> call.op, accepted |-> TRUE, params |-> params,
                     value |-> checksum_with_params(params, <<49>>)]
    /\ UseArchOps(update_uses_arch_ops)
    /\ pc' = "done"
    /\ UNCHANGED <<envVars, lock, call, ret, calls, digestVars>>

\* crc_fast_checksum_with_params on one byte of data
FfiChecksumWithParams ==
    /\ pc = "call" /\ call.op = "crc_fast_checksum_with_params"
    /\ LET converted == try_params_from_ffi(call.params)
       IN IF converted.some
          THEN /\ out' = [op |-> call.op, accepted |-> TRUE, params |-> converted.value,
                          value |-> checksum_with_params(converted.value, <<49>>)]
               /\ UseArchOps(update_uses_arch_ops)
          ELSE /\ out' = [op |-> call.op, accepted |-> FALSE,
                          error |-> IF call.params.keys.null THEN "NullPointer"
                                    ELSE "InvalidKeyCount",
                          value |-> ZERO]
               /\ UNCHANGED dispatchVars
    /\ pc' = "done"
    /\ UNCHANGED <<envVars, cacheVars, call, ret, calls, digestVars>>

ParamsNext == ParamsNew \/ FfiChecksumWithParams

ParamsSpec == ParamsInit /\ [][ParamsNext]_vars

\* C15: every CrcParams the library computes with has refin = refout;
\* parameters with refin # refout are rejected on every construction path,
\* CrcParams::new and the conversion from the FFI CrcFastParams struct.
C15_ReflectionConsistent ==
    (out.op \in {"CrcParams::new", "crc_fast_checksum_with_params"} /\ out.accepted) =>
        out.params.refin = out.params.refout

----------------------------------------------------------------------------
(* Specification LifeSpec: the whole life of a Digest object on one thread. *)
(* It is built by any of the three constructors, then updated, finalized,   *)
(* reset and combined with a second digest in any order.  For digest d,     *)
(* pc[d] says whether its current stream began at construction or at a      *)
(* reset, and ret[d] keeps what happened to it: its constructor, whether    *)
(* the stream began at params.init, how many bytes it held when last reset, *)
(* and whether it was finalized since the stream began.                     *)

MaxLife == 2
LifeVariants == {"Crc32Bzip2", "Crc64Nvme"}

\* states to resume a digest from (init_state is any u64): the variant's
\* init, a foreign word of the variant's width, a foreign 64-bit word
ResumeStates(params) ==
    {params.init, Low(u64(\hDEAD, \hBEEF, \h0123, \h4567), params.width),
     u64(\hDEAD, \hBEEF, \h0123, \h4567)}

Constructors == {"new", "new_with_init_state", "new_with_params"}

\* the parameters a caller of CrcParams::new builds for the variant
custom_params(algorithm) ==
    LET p == get_calculator_params(algorithm).params
    IN CrcParams_new(p.width, p.poly, p.init, p.refin, p.xorout, p.check,
                     ParamsKeys[<<p.width, p.poly, p.refin>>])

Digest_new_with_params(params) ==
    [state |-> params.init, amount |-> ZERO, params |-> params,
     calculator |-> "Calculator::calculate"]

construct(constructor, algorithm, init_state) ==
    CASE constructor = "new" -> Digest_new(algorithm)
      [] constructor = "new_with_init_state" -> Digest_new_with_init_state(algorithm, init_state)
      [] constructor = "new_with_params" -> Digest_new_with_params(custom_params(algorithm))

Built(constructor, self) ==
    [constructor |-> constructor, from_init |-> self.state = self.params.init,
     held_at_reset |-> 0, finalized |-> FALSE]

LifeInit ==
    /\ InitEnvironment(ThreadEnvironments)
    /\ IdleDispatch /\ IdleCache
    /\ variant \in LifeVariants
    /\ digest = [d \in Digests |-> Digest_new(variant)]
    /\ absorbed = [d \in Digests |-> <<>>]
    /\ combined = [d \in Digests |-> "no"]
    /\ pc = [d \in Digests |-> "constructed"]
    /\ ret = [d \in Digests |-> Built("new", digest[d])]
    /\ call = <<>> /\ calls = <<>>
    /\ out = NoOutput

LifeNew(d, constructor, init_state) ==
    /\ constructor # "new_with_init_state" => init_state = digest[d].params.init
    /\ LET self == construct(constructor, variant, init_state)
       IN /\ digest' = [digest EXCEPT ![d] = self]
          /\ ret' = [ret EXCEPT ![d] = Built(constructor, self)]
    /\ absorbed' = [absorbed EXCEPT ![d] = <<>>]
    /\ combined' = [combined EXCEPT ![d] = "no"]
    /\ pc' = [pc EXCEPT ![d] = "constructed"]
    /\ out' = [op |-> "new", d |-> d]
    /\ UNCHANGED <<envVars, dispatchVars, cacheVars, call, calls, variant>>

LifeUpdate(d, data) ==
    /\ ~panicked(digest[d])
    /\ Stored + Len(data) <= MaxLife
    /\ digest' = [digest EXCEPT ![d] = Digest_update(digest[d], data)]
    /\ absorbed' = [absorbed EXCEPT ![d] = absorbed[d] \o data]
    /\ UseArchOps(calculator_uses_arch_ops(digest[d].calculator))
    /\ out' = [op |-> "update", d |-> d, len |-> Len(data)]
    /\ UNCHANGED <<envVars, cacheVars, threadVars, variant, combined>>

\* finalize takes &self: the digest is not written
LifeFinalize(d) ==
    /\ ~panicked(digest[d])
    /\ out' = [op |-> "finalize", d |-> d, value |-> Digest_finalize(digest[d])]
    /\ ret' = [ret EXCEPT ![d].finalized = TRUE]
    /\ UNCHANGED <<envVars, dispatchVars, cacheVars, pc, call, calls, digestVars>>

LifeReset(d) ==
    /\ ~panicked(digest[d])
    /\ digest' = [digest EXCEPT ![d] = Digest_reset(digest[d])]
    /\ ret' = [ret EXCEPT ![d].from_init = TRUE, ![d].held_at_reset = Len(absorbed[d]),
                          ![d].finalized = FALSE]
    /\ absorbed' = [absorbed EXCEPT ![d] = <<>>]
    /\ combined' = [combined EXCEPT ![d] = "no"]
    /\ pc' = [pc EXCEPT ![d] = "reset"]
    /\ out' = [op |-> "reset", d |-> d]
    /\ UNCHANGED <<envVars, dispatchVars, cacheVars, call, calls, variant>>

LifeCombine(d, other) ==
    /\ d # other
    /\ ~panicked(digest[d]) /\ ~panicked(digest[other])
    /\ Len(absorbed[d]) + Len(absorbed[other]) <= MaxLife
    /\ digest' = [digest EXCEPT ![d] = Digest_combine(digest[d], digest[other])]
    /\ absorbed' = [absorbed EXCEPT ![d] = absorbed[d] \o absorbed[other]]
    /\ combined' = [combined EXCEPT ![d] =
                        IF absorbed[d] # <<>> /\ absorbed[other] # <<>> THEN "joined"
                        ELSE IF combined[d] = "joined" THEN "joined" ELSE "empty"]
    /\ ret' = [ret EXCEPT ![d].from_init = @ /\ ret[other].from_init]
    /\ out' = [op |-> "combine", d |-> d, amount |-> digest[other].amount]
    /\ UNCHANGED <<envVars, dispatchVars, cacheVars, pc, call, calls, variant>>

\* digest 1 lives the whole life; digest 2 is the one it absorbs, built by
\* Digest::new and updated
LifeNext ==
    \/ \E constructor \in Constructors :
          \E init_state \in ResumeStates(get_calculator_params(variant).params) :
              LifeNew(1, constructor, init_state)
    \/ LifeNew(2, "new", digest[2].params.init)
    \/ \E d \in Digests : \E data \in BytesUpTo(MaxPart) : LifeUpdate(d, data)
    \/ LifeFinalize(1)
    \/ LifeReset(1)
    \/ LifeCombine(1, 2)

LifeSpec == LifeInit /\ [][LifeNext]_vars

\* C16: reset round-trip.  Whatever constructor built a digest and whatever
\* was done to it, reset() leaves state = params.init and amount = 0, and
\* the updates that follow finalize to checksum(variant, y) for the bytes y
\* absorbed since the reset.
C16_ResetRoundTrip ==
    /\ out.op = "reset" =>
          /\ digest[out.d].state = digest[out.d].params.init
          /\ digest[out.d].amount = ZERO
    /\ \A d \in Digests :
          (pc[d] = "reset" /\ ~panicked(digest[d]) /\ combined[d] = "no"
              /\ OneShot(d) # PANIC) =>
                  Digest_finalize(digest[d]) = OneShot(d)
    /\ (out.op = "finalize" /\ pc[out.d] = "reset" /\ combined[out.d] = "no"
          /\ OneShot(out.d) # PANIC) =>
              out.value = OneShot(out.d)

\* a digest built from a foreign start state took bytes x, was reset, took
\* bytes y, and was finalized
C16_Witness ==
    /\ out.op = "finalize"
    /\ pc[out.d] = "reset"
    /\ ret[out.d].constructor = "new_with_init_state"
    /\ ret[out.d].held_at_reset > 0
    /\ combined[out.d] = "no"
    /\ absorbed[out.d] # <<>>
    /\ out.value = OneShot(out.d)

----------------------------------------------------------------------------
(* Specification AmountSpec: the byte counter of a Digest over a long life. *)
(* Digest is Copy, so a digest can absorb a copy of itself, and each such   *)
(* combine doubles its amount.  Here absorbed[d] is the number of bytes     *)
(* digest d stands for since its construction or last reset, as a binary    *)
(* numeral of any length, and the build is one with or one without          *)
(* overflow-checks.                                                         *)

\* the bytes update feeds a digest before the doubling starts
MaxSeed == 2
\* totals stay below 2^MaxTotalBits
MaxTotalBits == 65

Digest_get_amount(self) == self.amount

AmountEnvironments ==
    {[e EXCEPT !.overflow_checks = checks] :
        e \in {Environment("other", TRUE, {})}, checks \in BOOLEAN}

AmountInit ==
    /\ InitEnvironment(AmountEnvironments)
    /\ IdleDispatch /\ IdleCache /\ IdleThreads
    /\ variant = "Crc32IsoHdlc"
    /\ digest = [d \in Digests |-> Digest_new(variant)]
    /\ absorbed = [d \in Digests |-> ZERO]
    /\ combined = [d \in Digests |-> "no"]
    /\ out = NoOutput

\* digest.update(b"1")
AmountUpdate(d) ==
    /\ ~panicked(digest[d])
    /\ absorbed[d] \in {as_u64(n) : n \in 0..(MaxSeed - 1)}
    /\ digest' = [digest EXCEPT ![d] = Digest_update(digest[d], <<49>>)]
    /\ absorbed' = [absorbed EXCEPT ![d] = sum(absorbed[d], as_u64(1))]
    /\ UseArchOps(calculator_uses_arch_ops(digest[d].calculator))
    /\ out' = [op |-> "update", d |-> d]
    /\ UNCHANGED <<envVars, cacheVars, threadVars, variant, combined>>

\* let copy = digest;
AmountCopy ==
    /\ ~panicked(digest[1])
    /\ digest' = [digest EXCEPT ![2] = digest[1]]
    /\ absorbed' = [absorbed EXCEPT ![2] = absorbed[1]]
    /\ out' = [op |-> "copy", d |-> 2]
    /\ UNCHANGED <<envVars, dispatchVars, cacheVars, threadVars, variant, combined>>

\* digest.combine(&copy)
AmountCombine ==
    /\ ~panicked(digest[1]) /\ ~panicked(digest[2])
    /\ absorbed[1] = absorbed[2]
    /\ \A i \in sum(absorbed[1], absorbed[2]) : i < MaxTotalBits
    /\ digest' = [digest EXCEPT ![1] = Digest_combine(digest[1], digest[2])]
    /\ absorbed' = [absorbed EXCEPT ![1] = sum(absorbed[1], absorbed[2])]
    /\ out' = [op |-> "combine", d |-> 1]
    /\ UNCHANGED <<envVars, dispatchVars, cacheVars, threadVars, variant, combined>>

AmountReset(d) ==
    /\ ~panicked(digest[d])
    /\ digest' = [digest EXCEPT ![d] = Digest_reset(digest[d])]
    /\ absorbed' = [absorbed EXCEPT ![d] = ZERO]
    /\ out' = [op |-> "reset", d |-> d]
    /\ UNCHANGED <<envVars, dispatchVars, cacheVars, threadVars, variant, combined>>

AmountGet(d) ==
    /\ ~panicked(digest[d])
    /\ out' = [op |-> "get_amount", d |-> d, value |-> Digest_get_amount(digest[d])]
    /\ UNCHANGED <<envVars, dispatchVars, cacheVars, threadVars, digestVars>>

AmountNext ==
    \/ \E d \in Digests : AmountUpdate(d)
    \/ AmountCopy
    \/ AmountCombine
    \/ \E d \in Digests : AmountReset(d)
    \/ \E d \in Digests : AmountGet(d)

AmountSpec == AmountInit /\ [][AmountNext]_vars

\* C17: at every point of a digest's life get_amount() is the number of
\* bytes absorbed since construction or the last reset: each update(bytes)
\* has added bytes.len() and each combine(other) has added other's amount.
C17_AmountCounts ==
    /\ \A d \in Digests : ~panicked(digest[d]) => digest[d].amount = absorbed[d]
    /\ out.op = "get_amount" => out.value = absorbed[out.d]


----------------------------------------------------------------------------
(* Further claims checked under ApiSpec *)

\* C18: empty input.  For every catalogued variant a checksum call on the
\* empty buffer that returns, returns init xor xorout, and a calculator
\* given zero bytes returns the state it was started from.
C18_EmptyInput ==
    /\ (out.op = "checksum" /\ out.buf = <<>> /\ out.value # PANIC) =>
          out.value = Xor(get_calculator_params(variant).params.init,
                          get_calculator_params(variant).params.xorout)
    /\ (out.op = "calculate" /\ out.bytes = <<>> /\ out.value # PANIC) =>
          out.value = out.state

\* the software path of a reflected 64-bit variant, started from a state
\* that is neither init nor zero, on zero bytes
C18_Witness ==
    /\ out.op = "calculate"
    /\ out.bytes = <<>>
    /\ ARCH_OPS_INSTANCE = "SoftwareFallback"
    /\ get_calculator_params(variant).params.width = 64
    /\ get_calculator_params(variant).params.refin
    /\ out.state \notin {ZERO, get_calculator_params(variant).params.init}
    /\ out.value = out.state


----------------------------------------------------------------------------
(* Further claims checked under LifeSpec *)

\* C19: finalize() returns state xor xorout and leaves the digest as it
\* was: state and amount are unchanged, a second finalize returns the same
\* value, and updates made after a finalize continue the same stream (the
\* digest still finalizes to the checksum of all bytes absorbed).
C19_FinalizeKeepsDigest ==
    /\ [](out.op = "finalize" /\ ~panicked(digest[out.d]) =>
            out.value = Xor(digest[out.d].state, digest[out.d].params.xorout))
    /\ [][out'.op = "finalize" =>
            /\ digest' = digest
            /\ (out.op = "finalize" /\ out.d = out'.d) => out'.value = out.value]_vars
    /\ [](\A d \in Digests :
            (ret[d].finalized /\ ret[d].from_init /\ ~panicked(digest[d])
                /\ OneShot(d) # PANIC) =>
                    /\ Digest_finalize(digest[d]) = OneShot(d)
                    /\ digest[d].amount = as_u64(Len(absorbed[d])))

\* a digest right after an update that followed a finalize in the same
\* stream: it stands for all the bytes of the stream
C19_Witness ==
    /\ out.op = "update" /\ out.len > 0
    /\ ~panicked(digest[out.d])
    /\ ret[out.d].finalized /\ ret[out.d].from_init
    /\ Len(absorbed[out.d]) = MaxLife
    /\ digest[out.d].amount = as_u64(MaxLife)
    /\ Digest_finalize(digest[out.d]) = OneShot(out.d)


----------------------------------------------------------------------------
(* Further claims checked under ThreadSpec *)

\* thread t's CrcParams::new call has returned
returned_params(t) ==
    /\ call[t].op = "checksum_with_params"
    /\ ret[t].keys # <<>>
    /\ pc[t] \notin {"write", "insert"}

\* the CrcParams it returned
params_of(t) ==
    CrcParams_new(call[t].p.width, call[t].p.poly, call[t].p.init, call[t].p.reflected,
                  call[t].p.xorout, call[t].p.check, ret[t].keys)

\* C20: the folding keys depend on (width, poly, reflected) only.  Two
\* CrcParams::new calls that agree on the three return the same keys,
\* whatever their init, xorout and check arguments are and whatever the
\* cache held when they ran (nothing, the entry, other entries, a cleared or
\* a poisoned cache).
C20_KeysDependOnTriple ==
    \A t \in Threads : \A u \in Threads :
        (/\ returned_params(t) /\ returned_params(u)
         /\ call[t].p.width = call[u].p.width
         /\ call[t].p.poly = call[u].p.poly
         /\ call[t].p.reflected = call[u].p.reflected) =>
            params_of(t).keys = params_of(u).keys

\* two calls that differ in init, xorout and check: one generated its keys on
\* a miss, the other found them in the cache
C20_Witness ==
    \E t \in Threads : \E u \in Threads :
        /\ returned_params(t) /\ returned_params(u)
        /\ call[t].p.poly = call[u].p.poly
        /\ call[t].p.reflected = call[u].p.reflected
        /\ call[t].p.init # call[u].p.init
        /\ call[t].p.xorout # call[u].p.xorout
        /\ ret[t].read = "miss" /\ ret[u].read = "hit"
        /\ params_of(t).keys = params_of(u).keys

----------------------------------------------------------------------------
(* Specification KeySpec: get_key on the key storages the program builds    *)
(* (the catalogue's, those CrcParams::new and the FFI conversion build, and *)
(* the arrays of the storage tests), at indices inside, at and beyond the   *)
(* end of the arrays.                                                       *)

\* indices 0..MaxIndex are tried, and the largest index there is
MaxIndex == 26
\* stands for usize::MAX: the largest integer the model checker holds
HugeIndex == 2147483647

KeyStorages ==
    {CRC32_ISO_HDLC.keys, CRC64_NVME.keys,
     from_keys_fold_256([i \in 0..22 |-> ByteWord(42)]),
     from_keys_fold_future_test([i \in 0..24 |-> ByteWord(84)]),
     from_keys_fold_future_test(ffi_keys(CRC_32_ISO_HDLC, TRUE, 25))}

KeyInit ==
    /\ InitEnvironment({Environment("other", TRUE, {})})
    /\ IdleDispatch /\ IdleCache /\ IdleDigests
    /\ call \in [op : {"get_key"}, storage : KeyStorages, index : (0..MaxIndex) \cup {HugeIndex}]
    /\ pc = "call" /\ ret = <<>> /\ calls = <<>>
    /\ out = NoOutput

GetKey ==
    /\ pc = "call"
    /\ out' = [op |-> "get_key", storage |-> call.storage, index |-> call.index,
               value |-> get_key(call.storage, call.index)]
    /\ pc' = "done"
    /\ UNCHANGED <<envVars, dispatchVars, cacheVars, call, ret, calls, digestVars>>

KeyNext == GetKey

KeySpec == KeyInit /\ [][KeyNext]_vars

\* the number of keys a storage holds: the length of its array
stored_keys(storage) == Cardinality(DOMAIN storage.keys)

\* C21: key access is total and bounds-checked.  For a 23-key and a 25-key
\* storage and every index, get_key returns the stored key when the index is
\* inside the array and zero otherwise, and never indexes outside the array
\* (which would panic).
C21_KeyAccessTotal ==
    out.op = "get_key" =>
        /\ out.value # PANIC
        /\ out.index < stored_keys(out.storage) => out.value = out.storage.keys[out.index]
        /\ out.index >= stored_keys(out.storage) => out.value = ZERO

\* the last key of a 25-key storage, and the first index past a 23-key one
C21_Witness ==
    /\ out.op = "get_key"
    /\ \/ /\ out.storage.tag = "KeysFutureTest" /\ out.index = 24
          /\ out.value = ByteWord(84)
       \/ /\ out.storage.tag = "KeysFold256" /\ out.index = 23
          /\ out.storage.keys[22] # ZERO /\ out.value = ZERO

----------------------------------------------------------------------------
(* Specification FfiSpec: C callers on two threads call the crc_fast_*      *)
(* functions of ffi.rs in any order, with null and non-null pointers, the   *)
(* handle a constructor returned, any algorithm tag, any width and any key  *)
(* count.  ret[t] is thread t's LAST_ERROR cell.  A panic inside an         *)
(* extern "C" function cannot unwind into the caller: it aborts the         *)
(* process (pc = "aborted"), after which nothing runs.  The build is one    *)
(* without arch dispatch, where update computes in software.                *)

\* at most this many calls are made in a behaviour
MaxFfiCalls == 3

CrcFastError ==
    {"Success", "LockPoisoned", "NullPointer", "InvalidKeyCount", "UnsupportedWidth",
     "InvalidUtf8", "IoError", "StringConversionError"}

LAST_ERROR(t) == ret[t]
set_last_error(t, error) == ret' = [ret EXCEPT ![t] = error]
clear_last_error(t) == ret' = [ret EXCEPT ![t] = "Success"]

\* the structs a C caller fills in for CRC-32/ISO-HDLC: 23 or 25 keys, a
\* count the library does not know, a null key pointer
FfiParams ==
    {p \in CrcFastParams : p.width = 32 /\ p.refin /\ p.refout}

FfiAlgorithms == {"Crc32IsoHdlc", "Crc32Custom"}

\* what the operating system does to a checksum_file call
FileOutcomes == {"ok", "open fails", "read fails"}
FfiFile == <<49, 50>>

\* checksum_file as one step: an open error is returned, a read error ends
\* the loop and the bytes read before it are checksummed
checksum_file(algorithm, io) ==
    CASE io = "open fails" -> [result |-> "Err"]
      [] io = "read fails" -> [result |-> "Ok", value |-> checksum(algorithm, SubSeq(FfiFile, 1, 1))]
      [] OTHER -> [result |-> "Ok", value |-> checksum(algorithm, FfiFile)]

FfiInit ==
    /\ InitEnvironment({Environment("other", TRUE, {})})
    /\ IdleDispatch /\ IdleCache
    /\ variant = "Crc32IsoHdlc"
    /\ digest = <<>> /\ absorbed = <<>> /\ combined = <<>>
    /\ pc = "running" /\ call = <<>> /\ calls = 0
    /\ ret = [t \in Threads |-> "Success"]
    /\ out = NoOutput

\* a call is made while the process lives
FfiCall == pc = "running" /\ calls < MaxFfiCalls /\ calls' = calls + 1

\* what a call that came back leaves in out: the faults of its arguments
\* and of the operating system, and what it returned
FfiReturned(op, t, null, count, width, io_failed, value) ==
    [op |-> op, thread |-> t, returned |-> TRUE, null |-> null, key_count |-> count,
     width |-> width, io_failed |-> io_failed, value |-> value]

FfiAborted(op, t) == [op |-> op, thread |-> t, returned |-> FALSE]

\* crc_fast_digest_new
crc_fast_digest_new(t, algorithm) ==
    /\ FfiCall /\ digest = <<>>
    /\ clear_last_error(t)
    /\ LET new == Digest_new(algorithm)
       IN IF panicked(new)
          THEN /\ pc' = "aborted" /\ out' = FfiAborted("crc_fast_digest_new", t)
               /\ UNCHANGED <<digest, absorbed>>
          ELSE /\ digest' = <<new>> /\ absorbed' = <<<<>>>>
               /\ out' = FfiReturned("crc_fast_digest_new", t, FALSE, 23, 32, FALSE, "handle")
               /\ UNCHANGED pc
    /\ UNCHANGED <<envVars, dispatchVars, cacheVars, call, variant, combined>>

\* crc_fast_digest_new_with_params
crc_fast_digest_new_with_params(t, params) ==
    /\ FfiCall /\ digest = <<>>
    /\ LET converted == try_params_from_ffi(params)
       IN IF converted.some
          THEN /\ clear_last_error(t)
               /\ digest' = <<Digest_new_with_params(converted.value)>>
               /\ absorbed' = <<<<>>>>
               /\ out' = FfiReturned("crc_fast_digest_new_with_params", t, FALSE,
                                     params.key_count, params.width, FALSE, "handle")
          ELSE /\ set_last_error(t, IF params.keys.null THEN "NullPointer"
                                    ELSE "InvalidKeyCount")
               /\ out' = FfiReturned("crc_fast_digest_new_with_params", t, params.keys.null,
                                     params.key_count, params.width, FALSE, "NULL")
               /\ UNCHANGED <<digest, absorbed>>
    /\ UNCHANGED <<envVars, dispatchVars, cacheVars, pc, call, variant, combined>>

\* crc_fast_digest_update: handle and data are null or valid
crc_fast_digest_update(t, handle_null, data_null) ==
    /\ FfiCall /\ (handle_null \/ digest # <<>>)
    /\ IF handle_null \/ data_null
       THEN /\ set_last_error(t, "NullPointer")
            /\ out' = FfiReturned("crc_fast_digest_update", t, TRUE, 23, 32, FALSE, "void")
            /\ UNCHANGED <<digest, absorbed, pc>>
       ELSE /\ clear_last_error(t)
            /\ LET updated == Digest_update(digest[1], <<49>>)
               IN IF panicked(updated)
                  THEN /\ pc' = "aborted" /\ out' = FfiAborted("crc_fast_digest_update", t)
                       /\ UNCHANGED <<digest, absorbed>>
                  ELSE /\ digest' = <<updated>>
                       /\ absorbed' = <<absorbed[1] \o <<49>>>>
                       /\ out' = FfiReturned("crc_fast_digest_update", t, FALSE, 23, 32,
                                             FALSE, "void")
                       /\ UNCHANGED pc
    /\ UNCHANGED <<envVars, dispatchVars, cacheVars, call, variant, combined>>

\* crc_fast_digest_finalize
crc_fast_digest_finalize(t, handle_null) ==
    /\ FfiCall /\ (handle_null \/ digest # <<>>)
    /\ IF handle_null
       THEN /\ set_last_error(t, "NullPointer")
            /\ out' = FfiReturned("crc_fast_digest_finalize", t, TRUE, 23, 32, FALSE, ZERO)
       ELSE /\ clear_last_error(t)
            /\ out' = FfiReturned("crc_fast_digest_finalize", t, FALSE, 23, 32, FALSE,
                                  Digest_finalize(digest[1]))
    /\ UNCHANGED <<envVars, dispatchVars, cacheVars, pc, call, digestVars>>

\* crc_fast_checksum_file
crc_fast_checksum_file(t, path_null, io) ==
    /\ FfiCall
    /\ IF path_null
       THEN /\ set_last_error(t, "NullPointer")
            /\ out' = FfiReturned("crc_fast_checksum_file", t, TRUE, 23, 32, FALSE, ZERO)
       ELSE LET r == checksum_file(variant, io)
            IN IF r.result = "Ok"
               THEN /\ clear_last_error(t)
                    /\ out' = FfiReturned("crc_fast_checksum_file", t, FALSE, 23, 32,
                                          io # "ok", r.value)
               ELSE /\ set_last_error(t, "IoError")
                    /\ out' = FfiReturned("crc_fast_checksum_file", t, FALSE, 23, 32,
                                          io # "ok", ZERO)
    /\ UNCHANGED <<envVars, dispatchVars, cacheVars, pc, call, digestVars>>

\* generate::keys for the polynomial of CRC-32/ISO-HDLC at the widths a
\* caller passes, computed once
FfiWidths == {16, 32, 64}
FfiKeys ==
    LET table == [g \in FfiWidths \X BOOLEAN |->
                     generate_keys(g[1], CRC_32_ISO_HDLC.poly, g[2])]
    IN IF Evaluated(table) THEN table ELSE <<>>

\* crc_fast_get_custom_params: the name pointer is null, a UTF-8 string or
\* bytes that are not UTF-8; the STRING_CACHE and STABLE_KEY_STORAGE
\* mutexes are never poisoned, a panic being the end of the process
crc_fast_get_custom_params(t, name, width, reflected) ==
    /\ FfiCall
    /\ LET poly == CRC_32_ISO_HDLC.poly
           key == CrcParamsCacheKey_new(width, poly, reflected)
           keys == FfiKeys[<<width, reflected>>]
           params == CrcParams_new(width, poly, ZERO, reflected, ZERO, ZERO, keys)
           error == IF name = "not UTF-8" THEN "InvalidUtf8"
                    ELSE IF width # 32 /\ width # 64 THEN "UnsupportedWidth"
                    ELSE "Success"
       IN /\ set_last_error(t, error)
          /\ CACHE' = [created |-> TRUE, map |-> HashMap_insert(CACHE.map, key, keys)]
          /\ IF panicked(params)
             THEN pc' = "aborted" /\ out' = FfiAborted("crc_fast_get_custom_params", t)
             ELSE /\ out' = FfiReturned("crc_fast_get_custom_params", t, FALSE,
                                        key_count(params.keys), width, FALSE,
                                        [algorithm |-> IF width = 64 THEN "Crc64Custom"
                                                       ELSE "Crc32Custom",
                                         width |-> params.width, refin |-> params.refin,
                                         refout |-> params.refout,
                                         key_count |-> key_count(params.keys)])
                  /\ UNCHANGED pc
    /\ UNCHANGED <<envVars, dispatchVars, lock, call, digestVars>>

\* crc_fast_get_version: returns the version string, touches nothing else
crc_fast_get_version(t) ==
    /\ FfiCall
    /\ out' = FfiReturned("crc_fast_get_version", t, FALSE, 23, 32, FALSE, "version")
    /\ UNCHANGED <<envVars, dispatchVars, cacheVars, pc, call, ret, digestVars>>

\* crc_fast_clear_error
crc_fast_clear_error(t) ==
    /\ FfiCall
    /\ clear_last_error(t)
    /\ out' = FfiReturned("crc_fast_clear_error", t, FALSE, 23, 32, FALSE, "void")
    /\ UNCHANGED <<envVars, dispatchVars, cacheVars, pc, call, digestVars>>

FfiNext ==
    \E t \in Threads :
        \/ \E algorithm \in FfiAlgorithms : crc_fast_digest_new(t, algorithm)
        \/ \E params \in FfiParams : crc_fast_digest_new_with_params(t, params)
        \/ \E handle_null \in BOOLEAN, data_null \in BOOLEAN :
               crc_fast_digest_update(t, handle_null, data_null)
        \/ \E handle_null \in BOOLEAN : crc_fast_digest_finalize(t, handle_null)
        \/ \E path_null \in BOOLEAN, io \in FileOutcomes : crc_fast_checksum_file(t, path_null, io)
        \/ \E name \in {"null", "UTF-8", "not UTF-8"}, width \in FfiWidths, reflected \in BOOLEAN :
               crc_fast_get_custom_params(t, name, width, reflected)
        \/ crc_fast_get_version(t)
        \/ crc_fast_clear_error(t)

FfiSpec == FfiInit /\ [][FfiNext]_vars

\* the error codes the arguments and the operating system of a call justify
call_faults(o) ==
    (IF o.null THEN {"NullPointer"} ELSE {})
        \cup (IF o.key_count \notin {23, 25} THEN {"InvalidKeyCount"} ELSE {})
        \cup (IF o.width \notin {32, 64} THEN {"UnsupportedWidth"} ELSE {})
        \cup (IF o.io_failed THEN {"IoError"} ELSE {})

\* C22: after each crc_fast_* call returns, the calling thread's last-error
\* is the outcome of that call: Success when the call succeeded, otherwise
\* the code of what was wrong (NullPointer, InvalidKeyCount,
\* UnsupportedWidth, IoError for a file failure), whatever earlier calls on
\* the thread or calls on other threads left behind.
C22_LastErrorIsThisCall ==
    (out.op \notin {"none", "crc_fast_clear_error"} /\ out.returned) =>
        IF call_faults(out) = {}
        THEN LAST_ERROR(out.thread) \in {"Success", "InvalidUtf8"}
        ELSE LAST_ERROR(out.thread) \in call_faults(out)


\* C30: no crc_fast_* function panics or aborts the process, whatever its
\* arguments: an unsupported width, a sentinel algorithm tag, a key count
\* the library does not know are reported through the last-error code and a
\* 0 / NULL / placeholder return value, and the call comes back.
C30_NoFfiAbort ==
    /\ pc # "aborted"
    /\ out.op # "none" => out.returned


----------------------------------------------------------------------------
(* The state of a width-32 digest (LifeSpec) *)

Digest_get_state(self) == self.state

\* C23: for a digest whose params have width 32, get_state() < 2^32 after
\* every operation (construction by any constructor, update, combine,
\* reset) in any sequence: the high 32 bits of the state are always zero.
C23_HighBitsZero ==
    \A d \in Digests :
        (~panicked(digest[d]) /\ digest[d].params.width = 32) =>
            Digest_get_state(digest[d]) \subseteq 0..31


----------------------------------------------------------------------------
(* Combining with an empty input, and the raw state after a combine        *)
(* (LifeSpec) *)

\* the checksums and raw states the two digests hold
HeldWords ==
    {Digest_finalize(digest[d]) : d \in {e \in Digests : ~panicked(digest[e])}}
        \cup {digest[d].state : d \in {e \in Digests : ~panicked(digest[e])}}

\* checksum_combine(v, c1, c2, 0) = c1 for the words held
ZeroLengthCombine ==
    \A c1 \in HeldWords : \A c2 \in HeldWords : checksum_combine(variant, c1, c2, ZERO) = c1

\* C24 as stated: when either input of a combine has length 0, the other's
\* checksum is returned unchanged: checksum_combine(v, c1, c2, 0) = c1, and
\* combining a digest that has absorbed zero bytes with another digest
\* leaves the result equal to the other digest's checksum.
C24_EmptyInputCombine ==
    /\ []ZeroLengthCombine
    /\ [][LifeCombine(1, 2) =>
            /\ absorbed[2] = <<>> => Digest_finalize(digest'[1]) = Digest_finalize(digest[1])
            /\ absorbed[1] = <<>> => Digest_finalize(digest'[1]) = Digest_finalize(digest[2])]_vars

\* C24, amended: the same, for an absorbing digest that has absorbed zero
\* bytes and whose state is its params' init (built by Digest::new or
\* Digest::new_with_params, resumed from init, or reset); a digest resumed
\* from another state by Digest::new_with_init_state stands for the stream
\* that led to that state, and the combine appends to it.
C24_FreshEmptyCombine ==
    /\ []ZeroLengthCombine
    /\ [][LifeCombine(1, 2) =>
            /\ absorbed[2] = <<>> => Digest_finalize(digest'[1]) = Digest_finalize(digest[1])
            /\ (absorbed[1] = <<>> /\ digest[1].state = digest[1].params.init) =>
                  Digest_finalize(digest'[1]) = Digest_finalize(digest[2])]_vars

\* a digest at the start of its stream has just absorbed a digest that
\* holds bytes, and finalizes to that digest's checksum
C24_Witness ==
    /\ out.op = "combine"
    /\ absorbed[2] # <<>> /\ absorbed[1] = absorbed[2]
    /\ ret[1].from_init
    /\ ~panicked(digest[1])
    /\ Digest_finalize(digest[1]) = Digest_finalize(digest[2])

\* C25 as stated: Digest::combine with a = self's raw state, b = other's raw
\* state and n = other.amount leaves self's raw state shift_crc(a, n) xor b,
\* for every variant, whatever its init and xorout.
C25_CombineRawState ==
    [][LifeCombine(1, 2) =>
          LET a == digest[1].state
              b == digest[2].state
              n == digest[2].amount
          IN digest'[1].state = Xor(shift_crc(a, n, digest[1].params), b)]_vars

\* C25, amended: the new raw state is shift_crc(a xor init, n) xor b when
\* n > 0, and a when n = 0; init enters because b, the raw state of other,
\* began at init and not at zero.  xorout does not enter.
C25_CombineRawStateInit ==
    [][LifeCombine(1, 2) =>
          LET a == digest[1].state
              b == digest[2].state
              n == digest[2].amount
              params == digest[1].params
          IN digest'[1].state =
                 IF n = ZERO THEN a ELSE Xor(shift_crc(Xor(a, params.init), n, params), b)]_vars

\* two digests that hold bytes have been combined
C25_Witness ==
    /\ out.op = "combine" /\ out.amount # ZERO
    /\ combined[1] = "joined"
    /\ ~panicked(digest[1])
    /\ digest[1].params.init # ZERO
    /\ digest[1].amount = as_u64(MaxLife)


----------------------------------------------------------------------------
(* Specification GenerateSpec: the constant generator is asked for one key  *)
(* slot of a polynomial; the outcome records the exponent the table of the  *)
(* width holds for the slot and the key generated.                          *)

\* the key slots whose key is x^e mod P for a listed exponent e
ExponentSlots == (1..6) \cup (9..20)

GenerateInit ==
    /\ InitEnvironment({Environment("other", TRUE, {})})
    /\ IdleDispatch /\ IdleCache /\ IdleDigests
    /\ call \in [op : {"generate"}, a : ParamsBases, reflected : BOOLEAN, index : 0..(KEY_COUNT - 1)]
    /\ pc = "call" /\ ret = <<>> /\ calls = <<>>
    /\ out = NoOutput

GenerateKey ==
    /\ pc = "call"
    /\ LET w == call.a.width
           exponents == IF w = 32 THEN CRC32_EXPONENTS ELSE CRC64_EXPONENTS
       IN out' = [op |-> "generate", width |-> w, poly |-> call.a.poly,
                  reflected |-> call.reflected, index |-> call.index,
                  exponent |-> IF call.index \in DOMAIN exponents THEN exponents[call.index]
                               ELSE 0,
                  key |-> generate_keys(w, call.a.poly, call.reflected)[call.index]]
    /\ pc' = "done"
    /\ UNCHANGED <<envVars, dispatchVars, cacheVars, call, ret, calls, digestVars>>

GenerateNext == GenerateKey

GenerateSpec == GenerateInit /\ [][GenerateNext]_vars

\* the multiples of the width the specification lists for k1..k6, k9..k20
ListedMultiples ==
    [i \in 0..20 |->
        <<0, 3, 5, 31, 33, 3, 2, 0, 0, 27, 29, 23, 25, 19, 21, 15, 17, 11, 13, 7, 9>>[i + 1]]

\* the multiples of 64 the keys of a 64-bit polynomial are generated with
Multiples64 ==
    [i \in 0..20 |->
        <<0, 2, 3, 16, 17, 2, 1, 0, 0, 14, 15, 12, 13, 10, 11, 8, 9, 6, 7, 4, 5>>[i + 1]]

\* slot index of the last generated key holds x^(multiple * w) mod P
GeneratedWith(multiple) ==
    /\ out.exponent = multiple * out.width
    /\ out.key = store_residue(out.width, out.reflected,
                               x_power(out.width, Low(out.poly, out.width),
                                       multiple * out.width))

\* C26 as stated: for both widths w, 32 and 64, the exponent table is the
\* listed one scaled by w: k1..k6 are generated with the exponents
\* (3,5,31,33,3,2)*w and k9..k20 with
\* (27,29,23,25,19,21,15,17,11,13,7,9)*w; k7 and k8 are generated
\* separately.
C26_ExponentsScaleWithWidth ==
    (out.op = "generate" /\ out.index \in ExponentSlots) =>
        GeneratedWith(ListedMultiples[out.index])

\* C26, amended: the listed multiples are those of width 32; for width 64
\* k1..k6 are generated with (2,3,16,17,2,1)*64 and k9..k20 with
\* (14,15,12,13,10,11,8,9,6,7,4,5)*64; the tables hold 0 in the slots of k7
\* and k8 for both widths.
C26_ExponentsPerWidth ==
    /\ (out.op = "generate" /\ out.index \in ExponentSlots) =>
          GeneratedWith(IF out.width = 32 THEN ListedMultiples[out.index]
                        ELSE Multiples64[out.index])
    /\ (out.op = "generate" /\ out.index \in {7, 8}) => out.exponent = 0

\* the first key of a 64-bit polynomial has been generated, with x^128
C26_Witness ==
    /\ out.op = "generate"
    /\ out.width = 64 /\ out.index = 1
    /\ out.exponent = 128
    /\ out.key # ZERO


----------------------------------------------------------------------------
(* Key generation and the cache's lock (ThreadSpec) *)

\* C27: on a cache miss the thread that generates keys holds neither the
\* read nor the write guard of the cache: the read guard is released before
\* generate::keys runs, and the write guard is taken only afterwards, with
\* the keys already generated, for the insert.
C27_GenerateOutsideLocks ==
    \A t \in Threads :
        /\ pc[t] \in {"generate", "write"} => t \notin lock.readers \cup lock.writers
        /\ pc[t] = "write" => ret[t].keys = generated(call[t].p.width, call[t].p.poly,
                                                      call[t].p.reflected)
        /\ (pc[t] = "insert" /\ t \in lock.writers) =>
              ret[t].keys = generated(call[t].p.width, call[t].p.poly, call[t].p.reflected)

\* one thread generates keys after a miss while the other holds the write
\* guard for its insert
C27_Witness ==
    \E t \in Threads : \E u \in Threads :
        /\ t # u
        /\ pc[t] = "generate" /\ ret[t].read = "miss"
        /\ pc[u] = "insert" /\ lock.writers = {u}


----------------------------------------------------------------------------
(* Specification HeapSpec: a digest of a catalogued variant or of custom    *)
(* parameters is built and updated, and checksums are computed, on a build  *)
(* with a hardware tier and on one with the software fallback.  ret counts  *)
(* the heap allocations made by the calls so far that were not freed when   *)
(* the call returned (Box::leak), calls the update and checksum calls made. *)

\* at most this many update and checksum calls are made in a behaviour
MaxUpdates == 3

\* software::update: for a sentinel tag the crc crate's Algorithm is built
\* from the params, boxed and leaked, on every call
software_update_leaked(params) ==
    IF \/ params.width = 32 /\ params.algorithm = "Crc32Custom"
       \/ params.width = 64 /\ params.algorithm = "Crc64Custom"
    THEN 1 ELSE 0

\* whether arch::update calls software::update
arch_update_calls_software ==
    CASE target_arch = "aarch64" ->
           /\ get_arch_ops \notin {"Aarch64AesSha3", "Aarch64Aes"}
           /\ (~is_feature_detected("aes") \/ ~is_feature_detected("neon"))
           /\ ("aes" \notin static_features \/ "neon" \notin static_features)
      [] target_arch \in {"x86", "x86_64"} ->
           /\ get_arch_ops \notin {"X86_64Avx512Vpclmulqdq", "X86_64Avx512Pclmulqdq",
                                   "X86SsePclmulqdq"}
           /\ (rust_1_89 => target_arch = "x86")
           /\ (~is_feature_detected("sse4.1") \/ ~is_feature_detected("pclmulqdq"))
           /\ target_arch = "x86"
           /\ ("sse4.1" \notin static_features \/ "pclmulqdq" \notin static_features)
      [] OTHER -> TRUE

\* the allocations a call through a CalculatorFn pointer leaves behind
calculator_call_leaked(calculator, params) ==
    LET calls_arch_update ==
            CASE calculator = "crc32_iscsi_calculator" ->
                   target_arch \notin {"aarch64", "x86_64", "x86"}
              [] calculator = "crc32_iso_hdlc_calculator" -> target_arch # "aarch64"
              [] OTHER -> TRUE
    IN IF calls_arch_update /\ arch_update_calls_software
       THEN software_update_leaked(params) ELSE 0

HeapInit ==
    /\ InitEnvironment(ThreadEnvironments)
    /\ IdleDispatch /\ IdleCache
    /\ variant \in LifeVariants
    /\ digest = <<>> /\ absorbed = <<>> /\ combined = <<>>
    /\ pc = "start" /\ call = <<>> /\ calls = 0 /\ ret = 0
    /\ out = NoOutput

\* Digest::new(variant), or Digest::new_with_params on the parameters
\* CrcParams::new builds for the variant
HeapNew(constructor) ==
    /\ pc = "start"
    /\ digest' = <<construct(constructor, variant, ZERO)>>
    /\ absorbed' = <<<<>>>>
    /\ pc' = "built"
    /\ out' = [op |-> "new", constructor |-> constructor]
    /\ UNCHANGED <<envVars, dispatchVars, cacheVars, call, ret, calls, variant, combined>>

HeapUpdate(data) ==
    /\ pc = "built" /\ ~panicked(digest[1])
    /\ calls < MaxUpdates
    /\ Len(absorbed[1]) + Len(data) <= MaxLife
    /\ digest' = <<Digest_update(digest[1], data)>>
    /\ absorbed' = <<absorbed[1] \o data>>
    /\ ret' = ret + calculator_call_leaked(digest[1].calculator, digest[1].params)
    /\ calls' = calls + 1
    /\ UseArchOps(calculator_uses_arch_ops(digest[1].calculator))
    /\ out' = [op |-> "update", custom |-> digest[1].params.algorithm \notin Catalogued,
               leaked |-> calculator_call_leaked(digest[1].calculator, digest[1].params)]
    /\ UNCHANGED <<envVars, cacheVars, pc, call, variant, combined>>

\* checksum(variant, data), or checksum_with_params on the custom params
HeapChecksum(custom, data) ==
    /\ calls < MaxUpdates
    /\ LET cp == IF custom THEN calculate(custom_params(variant))
                 ELSE get_calculator_params(variant)
       IN /\ ret' = ret + calculator_call_leaked(cp.calculator, cp.params)
          /\ UseArchOps(calculator_uses_arch_ops(cp.calculator))
          /\ out' = [op |-> "checksum", custom |-> custom,
                     value |-> calculator_call(cp.calculator, cp.params.init, data, cp.params),
                     leaked |-> calculator_call_leaked(cp.calculator, cp.params)]
    /\ calls' = calls + 1
    /\ UNCHANGED <<envVars, cacheVars, pc, call, digestVars>>

HeapNext ==
    \/ \E constructor \in {"new", "new_with_params"} : HeapNew(constructor)
    \/ \E data \in BytesUpTo(MaxPart) : HeapUpdate(data)
    \/ \E custom \in BOOLEAN : HeapChecksum(custom, <<49>>)

HeapSpec == HeapInit /\ [][HeapNext]_vars

\* C28: update and checksum make no heap allocation that outlives the call,
\* so memory use stays bounded however many calls are made, on the hardware
\* tiers and on the software fallback, for catalogued and for custom
\* parameters.
C28_NoAllocationOutlivesCall ==
    /\ ret = 0
    /\ out.op \in {"update", "checksum"} => out.leaked = 0


----------------------------------------------------------------------------
(* The chunk size of checksum_file (FileSpec) *)

\* C29: for every readable file (it opens and every read of it succeeds)
\* and every chunk_size (None, Some(0), Some(1), larger than the file),
\* checksum_file(alg, path, chunk_size) returns checksum(alg, the file's
\* full contents).
C29_ChunkSizeIndependent ==
    (out.op = "checksum_file" /\ out.failed = "none") =>
        /\ out.result = "Ok"
        /\ out.value = checksum(variant, call.file)

====
